---- MODULE Spec2Model ----
(***************************************************************************)
(* A model of the PostgreSQL MCP server: the SQL safety gateway of         *)
(* mlservice/db.py (detect_mutating_keywords, check_sql_injection_risk)    *)
(* and the tools of v1/server.py (execute_sql, get_tables,                 *)
(* get_table_schemas) running over the pg8000 driver.                      *)
(*                                                                         *)
(* A text (a Python str) is a sequence of one-character strings.  An       *)
(* offset i into a text t is the number of characters before it, so the    *)
(* character at offset i is t[i + 1].                                      *)
(***************************************************************************)
EXTENDS Integers, Sequences, FiniteSets, TLC

----------------------------------------------------------------------------
(* Characters and the character classes of Python's re module (ASCII).     *)

LOWER == <<"a","b","c","d","e","f","g","h","i","j","k","l","m",
           "n","o","p","q","r","s","t","u","v","w","x","y","z">>

UPPER == <<"A","B","C","D","E","F","G","H","I","J","K","L","M",
           "N","O","P","Q","R","S","T","U","V","W","X","Y","Z">>

DIGITS == <<"0","1","2","3","4","5","6","7","8","9">>

Range(s) == { s[i] : i \in DOMAIN s }

DigitChars == Range(DIGITS)

SpaceChars == {" ", "\t", "\n", "\r", "\f"}

WordChars == Range(LOWER) \cup Range(UPPER) \cup Range(DIGITS) \cup {"_"}

UpperOf == [c \in Range(LOWER) |-> UPPER[CHOOSE i \in DOMAIN LOWER : LOWER[i] = c]]

\* \d
IsDigit(c) == c \in DigitChars

\* a \s that knows the blank only
IsBlank(c) == c = " "

\* \s
IsSpace(c) == c \in SpaceChars

\* \w
IsWord(c) == c \in WordChars

\* str.upper() on one character
upper_ch(c) == IF c \in DOMAIN UpperOf THEN UpperOf[c] ELSE c

\* str.upper()
upper(s) == [i \in 1..Len(s) |-> upper_ch(s[i])]

\* str.strip(): leading and trailing whitespace removed
RECURSIVE lstrip(_)
lstrip(s) == IF s # <<>> /\ IsSpace(Head(s)) THEN lstrip(Tail(s)) ELSE s

RECURSIVE rstrip(_)
rstrip(s) ==
    IF s # <<>> /\ IsSpace(s[Len(s)]) THEN rstrip(SubSeq(s, 1, Len(s) - 1)) ELSE s

strip(s) == rstrip(lstrip(s))

\* str.startswith(prefix)
startswith(s, prefix) ==
    Len(prefix) <= Len(s) /\ SubSeq(s, 1, Len(prefix)) = prefix

\* sep.join(parts)
RECURSIVE join(_, _)
join(sep, parts) ==
    IF parts = <<>> THEN <<>>
    ELSE IF Len(parts) = 1 THEN parts[1]
    ELSE parts[1] \o sep \o join(sep, Tail(parts))

\* a pattern without its \b assertions
WordBoundary_anywhere(t, i) == TRUE

\* the regex assertion \b at offset i of t
WordBoundary(t, i) ==
    (i > 0 /\ IsWord(t[i])) # (i < Len(t) /\ IsWord(t[i + 1]))

\* a literal of a (?i) pattern matches t at offset i
MatchLiteral(t, i, lit) ==
    /\ i + Len(lit) <= Len(t)
    /\ \A j \in 1..Len(lit) : upper_ch(t[i + j]) = upper_ch(lit[j])

\* the offset where a greedy \s* starting at offset i ends
RECURSIVE SkipSpace(_, _)
SkipSpace(t, i) ==
    IF i < Len(t) /\ IsSpace(t[i + 1]) THEN SkipSpace(t, i + 1) ELSE i

\* the offset where a greedy \d* starting at offset i ends
RECURSIVE SkipDigits(_, _)
SkipDigits(t, i) ==
    IF i < Len(t) /\ IsDigit(t[i + 1]) THEN SkipDigits(t, i + 1) ELSE i

\* the offset where a greedy [^']* starting at offset i ends
RECURSIVE SkipNonQuote(_, _)
SkipNonQuote(t, i) ==
    IF i < Len(t) /\ t[i + 1] # "'" THEN SkipNonQuote(t, i + 1) ELSE i

\* the character at offset i is c
CharAt(t, i, c) == i < Len(t) /\ t[i + 1] = c

----------------------------------------------------------------------------
(* mlservice/db.py: the mutating vocabulary and its compiled pattern.      *)

KW_INSERT == <<"I","N","S","E","R","T">>
KW_UPDATE == <<"U","P","D","A","T","E">>
KW_DELETE == <<"D","E","L","E","T","E">>
KW_MERGE == <<"M","E","R","G","E">>
KW_TRUNCATE == <<"T","R","U","N","C","A","T","E">>
KW_CREATE == <<"C","R","E","A","T","E">>
KW_DROP == <<"D","R","O","P">>
KW_ALTER == <<"A","L","T","E","R">>
KW_RENAME == <<"R","E","N","A","M","E">>
KW_GRANT == <<"G","R","A","N","T">>
KW_REVOKE == <<"R","E","V","O","K","E">>
KW_COMMENT_ON == <<"C","O","M","M","E","N","T"," ","O","N">>
KW_SECURITY_LABEL == <<"S","E","C","U","R","I","T","Y"," ","L","A","B","E","L">>
KW_CREATE_EXTENSION == <<"C","R","E","A","T","E"," ","E","X","T","E","N","S","I","O","N">>
KW_CREATE_FUNCTION == <<"C","R","E","A","T","E"," ","F","U","N","C","T","I","O","N">>
KW_INSTALL == <<"I","N","S","T","A","L","L">>
KW_CLUSTER == <<"C","L","U","S","T","E","R">>
KW_REINDEX == <<"R","E","I","N","D","E","X">>
KW_VACUUM == <<"V","A","C","U","U","M">>
KW_ANALYZE == <<"A","N","A","L","Y","Z","E">>

MUTATING_KEYWORDS ==
    { KW_INSERT, KW_UPDATE, KW_DELETE, KW_MERGE, KW_TRUNCATE,
      KW_CREATE, KW_DROP, KW_ALTER, KW_RENAME,
      KW_GRANT, KW_REVOKE,
      KW_COMMENT_ON, KW_SECURITY_LABEL,
      KW_CREATE_EXTENSION, KW_CREATE_FUNCTION, KW_INSTALL,
      KW_CLUSTER, KW_REINDEX, KW_VACUUM, KW_ANALYZE }

(* MUTATING_PATTERN joins the entries of a Python set with "|": the order   *)
(* of the alternatives is the set's iteration order, which string hashing  *)
(* fixes per process and varies between processes.  Two alternatives can   *)
(* match at the same offset only when one is a prefix of the other, which  *)
(* holds of CREATE, CREATE EXTENSION and CREATE FUNCTION alone, so the     *)
(* orders that differ observably are the six orders of these three.        *)
NonPrefixKeywords ==
    << KW_INSERT, KW_UPDATE, KW_DELETE, KW_MERGE, KW_TRUNCATE, KW_DROP,
       KW_ALTER, KW_RENAME, KW_GRANT, KW_REVOKE, KW_COMMENT_ON,
       KW_SECURITY_LABEL, KW_INSTALL, KW_CLUSTER, KW_REINDEX, KW_VACUUM,
       KW_ANALYZE >>

PrefixKeywords == {KW_CREATE, KW_CREATE_EXTENSION, KW_CREATE_FUNCTION}

AlternationOrders ==
    { NonPrefixKeywords \o p :
        p \in { q \in [1..3 -> PrefixKeywords] : {q[1], q[2], q[3]} = PrefixKeywords } }

\* \b(k)\b matches t at offset i
KeywordMatchesAt(t, i, k) ==
    /\ WordBoundary(t, i)
    /\ MatchLiteral(t, i, k)
    /\ WordBoundary(t, i + Len(k))

\* the index in order of the first alternative of \b(k1|k2|...)\b that
\* matches t at offset i, 0 when none does
FirstAlternativeAt(t, i, order) ==
    IF WordBoundary(t, i) /\ \E n \in DOMAIN order : KeywordMatchesAt(t, i, order[n])
    THEN CHOOSE n \in DOMAIN order :
            /\ KeywordMatchesAt(t, i, order[n])
            /\ \A m \in 1..(n - 1) : ~KeywordMatchesAt(t, i, order[m])
    ELSE 0

\* MUTATING_PATTERN.findall(t) scanning from offset i: the texts of the
\* non-overlapping matches, leftmost first
RECURSIVE MUTATING_PATTERN_findall(_, _, _)
MUTATING_PATTERN_findall(t, i, order) ==
    IF i >= Len(t) THEN <<>>
    ELSE LET n == FirstAlternativeAt(t, i, order) IN
         IF n = 0 THEN MUTATING_PATTERN_findall(t, i + 1, order)
         ELSE LET e == i + Len(order[n]) IN
              <<SubSeq(t, i + 1, e)>> \o MUTATING_PATTERN_findall(t, e, order)

\* the lists list(S) can be for a set S: one per iteration order
Orderings(S) ==
    { p \in [1..Cardinality(S) -> S] : \A x \in S : \E i \in DOMAIN p : p[i] = x }

\* t from offset i on with its '--' and '/* */' comments left out
RECURSIVE WithoutComments(_, _, _)
WithoutComments(t, i, mode) ==
    IF i >= Len(t) THEN <<>>
    ELSE IF mode = "line"
        THEN IF t[i + 1] = "\n" THEN <<"\n">> \o WithoutComments(t, i + 1, "code")
             ELSE WithoutComments(t, i + 1, "line")
    ELSE IF mode = "block"
        THEN IF t[i + 1] = "*" /\ CharAt(t, i + 1, "/")
             THEN <<" ">> \o WithoutComments(t, i + 2, "code")
             ELSE WithoutComments(t, i + 1, "block")
    ELSE IF t[i + 1] = "-" /\ CharAt(t, i + 1, "-") THEN WithoutComments(t, i + 2, "line")
    ELSE IF t[i + 1] = "/" /\ CharAt(t, i + 1, "*") THEN WithoutComments(t, i + 2, "block")
    ELSE <<t[i + 1]>> \o WithoutComments(t, i + 1, "code")

\* a detector that looks at the statement without its comments
detect_mutating_keywords_outside_comments(sql_text, order) ==
    LET matches == MUTATING_PATTERN_findall(WithoutComments(sql_text, 0, "code"), 0, order)
    IN  Orderings({ upper(matches[j]) : j \in DOMAIN matches })

\* detect_mutating_keywords(sql_text): the lists the call can return
detect_mutating_keywords(sql_text, order) ==
    LET matches == MUTATING_PATTERN_findall(sql_text, 0, order)
    IN  Orderings({ upper(matches[j]) : j \in DOMAIN matches })

----------------------------------------------------------------------------
(* mlservice/db.py: SUSPICIOUS_PATTERNS and check_sql_injection_risk.      *)
(* Every quantifier of these patterns is followed by a character outside   *)
(* its own class, so the greedy match is the only one to try.              *)

RE_or == <<"o","r">>
RE_drop == <<"d","r","o","p">>
RE_truncate == <<"t","r","u","n","c","a","t","e">>
RE_grant == <<"g","r","a","n","t">>
RE_revoke == <<"r","e","v","o","k","e">>
RE_sleep == <<"s","l","e","e","p">>
RE_pg_sleep == <<"p","g","_","s","l","e","e","p">>
RE_load_file == <<"l","o","a","d","_","f","i","l","e">>
RE_into == <<"i","n","t","o">>
RE_outfile == <<"o","u","t","f","i","l","e">>

\* \bword\b at offset i
WordAt(t, i, word) ==
    WordBoundary(t, i) /\ MatchLiteral(t, i, word) /\ WordBoundary(t, i + Len(word))

\* (?i)\bor\b\s+\d+\s*=\s*\d+
NumericTautologyAt(t, i) ==
    /\ WordAt(t, i, RE_or)
    /\ LET a == SkipSpace(t, i + 2)
           b == SkipDigits(t, a)
           c == SkipSpace(t, b)
           d == SkipSpace(t, c + 1)
       IN  /\ a > i + 2
           /\ b > a
           /\ CharAt(t, c, "=")
           /\ SkipDigits(t, d) > d

\* (?i)\bor\b\s*'[^']+'\s*=\s*'[^']+'
StringTautologyAt(t, i) ==
    /\ WordAt(t, i, RE_or)
    /\ LET a == SkipSpace(t, i + 2)
           b == SkipNonQuote(t, a + 1)
           c == SkipSpace(t, b + 1)
           d == SkipSpace(t, c + 1)
           e == SkipNonQuote(t, d + 1)
       IN  /\ CharAt(t, a, "'")
           /\ b > a + 1
           /\ CharAt(t, b, "'")
           /\ CharAt(t, c, "=")
           /\ CharAt(t, d, "'")
           /\ e > d + 1
           /\ CharAt(t, e, "'")

\* (?i)\bname\s*\(
CallAt(t, i, name) ==
    /\ WordBoundary(t, i)
    /\ MatchLiteral(t, i, name)
    /\ CharAt(t, SkipSpace(t, i + Len(name)), "(")

\* (?i)\binto\s+outfile\b
IntoOutfileAt(t, i) ==
    /\ WordBoundary(t, i)
    /\ MatchLiteral(t, i, RE_into)
    /\ LET a == SkipSpace(t, i + Len(RE_into))
       IN  /\ a > i + Len(RE_into)
           /\ MatchLiteral(t, a, RE_outfile)
           /\ WordBoundary(t, a + Len(RE_outfile))

\* the number of entries of SUSPICIOUS_PATTERNS
NumSuspiciousPatterns == 9

\* SUSPICIOUS_PATTERNS[n - 1] matches t at offset i
SUSPICIOUS_PATTERNS(n, t, i) ==
    CASE n = 1 -> NumericTautologyAt(t, i)
      [] n = 2 -> StringTautologyAt(t, i)
      [] n = 3 -> WordAt(t, i, RE_drop)
      [] n = 4 -> WordAt(t, i, RE_truncate)
      [] n = 5 -> WordAt(t, i, RE_grant) \/ WordAt(t, i, RE_revoke)
      [] n = 6 -> CallAt(t, i, RE_sleep)
      [] n = 7 -> CallAt(t, i, RE_pg_sleep)
      [] n = 8 -> CallAt(t, i, RE_load_file)
      [] n = 9 -> IntoOutfileAt(t, i)

\* re.search(SUSPICIOUS_PATTERNS[n - 1], sql) finds a match
re_search(n, sql) == \E i \in 0..Len(sql) : SUSPICIOUS_PATTERNS(n, sql, i)

MSG_SUSPICIOUS == <<"S","u","s","p","i","c","i","o","u","s"," ","p","a","t","t","e","r","n"," ","i","n"," ","q","u","e","r","y",":"," ">>

\* the dictionary check_sql_injection_risk appends
Issue(sql) == [type |-> "sql", message |-> MSG_SUSPICIOUS \o sql, severity |-> "high"]

\* the loop without its break: one issue for every pattern that matches
RECURSIVE ScanPatterns_no_break(_, _, _)
ScanPatterns_no_break(sql, n, issues) ==
    IF n > NumSuspiciousPatterns THEN issues
    ELSE ScanPatterns_no_break(sql, n + 1,
             IF re_search(n, sql) THEN Append(issues, Issue(sql)) ELSE issues)

\* the for loop of check_sql_injection_risk from pattern n on
RECURSIVE ScanPatterns(_, _, _)
ScanPatterns(sql, n, issues) ==
    IF n > NumSuspiciousPatterns THEN issues
    ELSE IF re_search(n, sql) THEN Append(issues, Issue(sql))
    ELSE ScanPatterns(sql, n + 1, issues)

check_sql_injection_risk(sql) == ScanPatterns(sql, 1, <<>>)

----------------------------------------------------------------------------
(* Python values and their text forms.                                     *)

None == [t |-> "None"]

PyInt(n) == [t |-> "int", v |-> n]

PyStr(chars) == [t |-> "str", v |-> chars]

\* str(n) of a non-negative int
RECURSIVE NatToStr(_)
NatToStr(n) ==
    IF n < 10 THEN <<DIGITS[n + 1]>>
    ELSE NatToStr(n \div 10) \o <<DIGITS[(n % 10) + 1]>>

\* str(n) of an int
IntToStr(n) == IF n < 0 THEN <<"-">> \o NatToStr(0 - n) ELSE NatToStr(n)

STR_None == <<"N","o","n","e">>

\* str(x) of a cell value
str(x) ==
    CASE x.t = "None" -> STR_None
      [] x.t = "int" -> IntToStr(x.v)
      [] x.t = "str" -> x.v

\* repr(s) of a str: the quote is " when s holds ' and no ", else '
repr_escape(c, quote) ==
    CASE c = "\\" -> <<"\\", "\\">>
      [] c = quote -> <<"\\", c>>
      [] c = "\n" -> <<"\\", "n">>
      [] c = "\t" -> <<"\\", "t">>
      [] c = "\r" -> <<"\\", "r">>
      [] c = "\f" -> <<"\\", "x", "0", "c">>
      [] OTHER -> <<c>>

RECURSIVE repr_body(_, _)
repr_body(s, quote) ==
    IF s = <<>> THEN <<>> ELSE repr_escape(Head(s), quote) \o repr_body(Tail(s), quote)

repr_str(s) ==
    LET quote == IF "'" \in Range(s) /\ ~("\"" \in Range(s)) THEN "\"" ELSE "'"
    IN  <<quote>> \o repr_body(s, quote) \o <<quote>>

REPR_type == <<"{","'","t","y","p","e","'",":"," ">>
REPR_message == <<",", " ","'","m","e","s","s","a","g","e","'",":"," ">>
REPR_severity == <<",", " ","'","s","e","v","e","r","i","t","y","'",":"," ">>
REPR_sql == <<"s","q","l">>
REPR_high == <<"h","i","g","h">>

\* repr(d) of an issue dictionary, keys in insertion order
repr_issue(d) ==
    REPR_type \o repr_str(IF d.type = "sql" THEN REPR_sql ELSE <<>>)
    \o REPR_message \o repr_str(d.message)
    \o REPR_severity \o repr_str(IF d.severity = "high" THEN REPR_high ELSE <<>>)
    \o <<"}">>

\* repr(issues) of a list of issue dictionaries
repr_issues(issues) ==
    <<"[">> \o join(<<",", " ">>, [i \in DOMAIN issues |-> repr_issue(issues[i])]) \o <<"]">>

----------------------------------------------------------------------------
(* The PostgreSQL catalog the queries of get_tables and get_table_schemas  *)
(* read, and what the two queries select from it.  A database is a record  *)
(* of pg_class (with the namespace name and the comment of each relation), *)
(* pg_attribute (the live user columns with their comments) and the        *)
(* constraints behind the information_schema views.                        *)

\* SQL NULL in a text column of the catalog
NULL == ""

\* the Python value the driver hands over for a catalog text
Py(x) == IF x = NULL THEN None ELSE PyStr(x)

\* the names of the relations in ORDER BY order
NameOrder == <<"accounts", "active_orders", "customers", "missing", "orders", "stats">>

Rank(name) == CHOOSE i \in DOMAIN NameOrder : NameOrder[i] = name

\* information_schema.tables: the tables and views of pg_class
information_schema_tables(db) ==
    { [table_schema |-> c.nspname, table_name |-> c.relname,
       table_type |-> IF c.relkind = "r" THEN "BASE TABLE" ELSE "VIEW"] :
        c \in { x \in db.pg_class : x.relkind \in {"r", "v"} } }

\* information_schema.key_column_usage: the columns of the key constraints
key_column_usage(db) ==
    UNION { { [constraint_name |-> k.constraint_name, table_schema |-> k.table_schema,
               table_name |-> k.table_name, column_name |-> k.columns[i]] :
                i \in DOMAIN k.columns } : k \in db.constraints }

\* information_schema.table_constraints
table_constraints(db) ==
    { [constraint_name |-> k.constraint_name, constraint_type |-> k.constraint_type] :
        k \in db.constraints }

\* information_schema.constraint_column_usage: for a foreign key the columns
\* it references, for a primary key its own columns
constraint_column_usage(db) ==
    UNION { { [constraint_name |-> k.constraint_name, table_schema |-> k.used[i][1],
               table_name |-> k.used[i][2], column_name |-> k.used[i][3]] :
                i \in DOMAIN k.used } : k \in db.constraints }

\* what a LEFT JOIN pairs a row with: its matches, or one row of NULLs
LeftJoin(matches, nulls) == IF matches = {} THEN {nulls} ELSE matches

\* a sort key <<table name rank, ordinal position>> comes no later than another
KeyLeq(x, y) == x[1] < y[1] \/ (x[1] = y[1] /\ x[2] <= y[2])

\* ORDER BY: every sequence of the rows in key order; rows of equal keys
\* come in an order the database chooses
RECURSIVE OrderBy(_)
OrderBy(S) ==
    IF S = {} THEN { <<>> }
    ELSE UNION { { <<x.row>> \o rest : rest \in OrderBy(S \ {x}) } :
                    x \in { m \in S : \A y \in S : KeyLeq(m.key, y.key) } }

\* lines 62-85: the rows the query of get_tables selects.  pg_class is joined
\* by relation name alone (line 67); the namespace join of lines 68-69 is a
\* LEFT JOIN and removes nothing.  tag tells apart the joined rows that
\* select equal values
get_tables_query(db, schema_name) ==
    LET tables_and_views ==
            { [key |-> <<Rank(p[1].table_name), 0>>,
               tag |-> <<p[2].nspname, p[2].relkind>>,
               row |-> <<PyStr(p[1].table_name), PyStr(p[1].table_type), Py(p[2].description)>>] :
                p \in { q \in information_schema_tables(db) \X db.pg_class :
                          /\ q[2].relname = q[1].table_name
                          /\ q[1].table_schema = schema_name
                          /\ q[2].description # NULL } }
        materialized_views ==
            { [key |-> <<Rank(c.relname), 0>>,
               tag |-> <<c.nspname, "UNION ALL">>,
               row |-> <<PyStr(c.relname), PyStr("MATERIALIZED VIEW"), Py(c.description)>>] :
                c \in { x \in db.pg_class :
                          /\ x.nspname = schema_name
                          /\ x.relkind = "m"
                          /\ x.description # NULL } }
    IN  OrderBy(tables_and_views \cup materialized_views)

\* lines 116-169: the rows the query of get_table_schemas selects
get_table_schemas_query(db, schema_name, tables) ==
    LET NullKeyColumn ==
            [constraint_name |-> NULL, table_schema |-> NULL, table_name |-> NULL,
             column_name |-> NULL]
        NullConstraint == [constraint_name |-> NULL, constraint_type |-> NULL]
        all_columns ==
            { p \in db.pg_class \X db.pg_attribute :
                /\ p[2].nspname = p[1].nspname /\ p[2].relname = p[1].relname
                /\ p[1].relkind \in {"r", "v", "m"}
                /\ p[1].nspname = schema_name
                /\ \E i \in DOMAIN tables : tables[i] = p[1].relname }
        Joined(ac, kcu, tc, ccu) ==
            [key |-> <<Rank(ac[1].relname), ac[2].attnum>>,
             tag |-> <<kcu, tc, ccu>>,
             row |-> <<PyStr(ac[2].attname), PyStr(ac[2].data_type), None,
                       PyStr(IF ac[2].attnotnull THEN "NO" ELSE "YES"), None,
                       Py(ac[2].description), Py(ac[1].description), PyStr(ac[1].relname),
                       Py(tc.constraint_name), Py(ccu.table_schema),
                       Py(ccu.table_name), Py(ccu.column_name)>>]
        Usage(tc) ==
            LeftJoin({ u \in constraint_column_usage(db) :
                         tc # NullConstraint /\ u.constraint_name = tc.constraint_name },
                     NullKeyColumn)
        ForeignKeys(kcu) ==
            LeftJoin({ x \in table_constraints(db) :
                         /\ kcu # NullKeyColumn
                         /\ x.constraint_name = kcu.constraint_name
                         /\ x.constraint_type = "FOREIGN KEY" },
                     NullConstraint)
        KeyColumns(ac) ==
            LeftJoin({ k \in key_column_usage(db) :
                         /\ k.table_schema = ac[1].nspname
                         /\ k.table_name = ac[1].relname
                         /\ k.column_name = ac[2].attname },
                     NullKeyColumn)
    IN  OrderBy(UNION { UNION { UNION { { Joined(ac, kcu, tc, ccu) : ccu \in Usage(tc) } :
                                        tc \in ForeignKeys(kcu) } :
                                kcu \in KeyColumns(ac) } :
                        ac \in all_columns })

\* relations, columns and constraints the databases are put together from
Relation(nspname, relname, relkind, description) ==
    [nspname |-> nspname, relname |-> relname, relkind |-> relkind,
     description |-> description]

Attribute(nspname, relname, attname, attnum, attnotnull, description) ==
    [nspname |-> nspname, relname |-> relname, attname |-> attname, attnum |-> attnum,
     data_type |-> "integer", attnotnull |-> attnotnull, description |-> description]

Constraint(name, type, relname, columns, used) ==
    [constraint_name |-> name, constraint_type |-> type, table_schema |-> "public",
     table_name |-> relname, columns |-> columns, used |-> used]

EmptyDatabase == [pg_class |-> {}, pg_attribute |-> {}, constraints |-> {}]

\* the database the server runs against: a documented table and view, an
\* undocumented table, one foreign key
ServerDatabase ==
    [pg_class |-> { Relation("public", "orders", "r", "Customer orders"),
                    Relation("public", "active_orders", "v", "Open orders"),
                    Relation("public", "customers", "r", NULL) },
     pg_attribute |-> { Attribute("public", "orders", "id", 1, TRUE, NULL),
                        Attribute("public", "orders", "customer_id", 2, FALSE, NULL),
                        Attribute("public", "customers", "id", 1, TRUE, NULL) },
     constraints |-> { Constraint("orders_fk", "FOREIGN KEY", "orders", <<"customer_id">>,
                                  << <<"public", "customers", "id">> >>) }]

----------------------------------------------------------------------------
(* v1/server.py over the pg8000 driver: the state.                         *)

\* the worker threads of the hosting layer that run tool calls
Threads == {"t1", "t2"}

VARIABLES
    database,       \* the catalog of the PostgreSQL server
    settings,       \* the module-level Settings object of v1/server.py
    alternation,    \* the order of the alternatives of the compiled MUTATING_PATTERN
    pc,             \* pc[c]: where the call running on thread c stands
    request,        \* request[c]: the tool called and its arguments
    frame,          \* frame[c]: the local variables of the call
    trace,          \* trace[c]: what the call has done so far, oldest first
    result,         \* result[c]: what the call handed to its caller
    connections,    \* the pg8000 connection objects alive, by identity
    cursors         \* the pg8000 cursor objects alive, by identity

vars == <<database, settings, alternation, pc, request, frame, trace, result,
          connections, cursors>>

NoPending == [kind |-> "none"]

Returns(v) == [kind |-> "return", value |-> v]

Raises(e) == [kind |-> "raise", exc |-> e]

NoRequest == [op |-> "none"]

NoObject == <<"none", 0>>

EmptyFrame == [cnxn |-> NoObject, cursor |-> NoObject, pending |-> NoPending]

\* the statements execute_sql is called with
Q_SELECT == <<"S","E","L","E","C","T"," ","*"," ","F","R","O","M"," ","m","y","_","t","a","b","l","e"," ","W","H","E","R","E"," ","i","d"," ","="," ","5">>
Q_DELETE == <<"D","E","L","E","T","E"," ","F","R","O","M"," ","l","o","g","s">>
Q_DROP == <<"D","R","O","P"," ","T","A","B","L","E"," ","l","o","g","s">>
Q_TAUTOLOGY == <<"S","E","L","E","C","T"," ","*"," ","F","R","O","M"," ","t"," ","W","H","E","R","E"," ","1","=","1"," ","O","R"," ","1","=","1">>
Q_SHOW == <<"S","H","O","W"," ","s","e","r","v","e","r","_","v","e","r","s","i","o","n">>
Q_with_delete == <<" "," ","w","i","t","h"," ","d"," ","a","s"," ","(","d","e","l","e","t","e"," ","f","r","o","m"," ","l","o","g","s"," ","r","e","t","u","r","n","i","n","g"," ","i","d",")"," ","s","e","l","e","c","t"," ","*"," ","f","r","o","m"," ","d">>

Queries == { Q_SELECT, Q_DELETE, Q_DROP, Q_TAUTOLOGY, Q_SHOW, Q_with_delete }

\* what the database can answer to an executed statement: a result set
\* (cursor.description and the rows) or none, and cursor.rowcount
COL_id == <<"i","d">>
COL_name == <<"n","a","m","e">>
CELL_Ann == <<"A","n","n">>
CELL_comma == <<"a",",","b">>

ResultSet(rows) ==
    [description |-> [t |-> "list", v |-> <<COL_id, COL_name>>], rows |-> rows, rowcount |-> Len(rows)]

NoResultSet(n) == [description |-> None, rows |-> <<>>, rowcount |-> n]

Outcomes ==
    { ResultSet(<<>>),
      ResultSet(<< <<PyInt(5), PyStr(CELL_Ann)>> >>),
      ResultSet(<< <<PyInt(7), PyStr(CELL_comma)>>, <<PyInt(12), None>> >>),
      NoResultSet(-1), NoResultSet(3) }

\* the messages of the exceptions the driver raises (str(e))
ERR_refused == <<"c","o","n","n","e","c","t","i","o","n"," ","r","e","f","u","s","e","d">>
ERR_syntax == <<"s","y","n","t","a","x"," ","e","r","r","o","r">>
ERR_NoneType == <<"'","N","o","n","e","T","y","p","e","'"," ","o","b","j","e","c","t"," ","i","s"," ","n","o","t"," ","i","t","e","r","a","b","l","e">>

ERR_closed == <<"c","o","n","n","e","c","t","i","o","n"," ","i","s"," ","c","l","o","s","e","d">>

\* the messages pg8000.connect, cursor.execute and the other driver calls raise
ConnectErrors == { ERR_refused }

ExecuteErrors == { ERR_syntax }

DriverErrors == { ERR_closed }

(* No statement the server is called with holds the word CREATE, so the    *)
(* server is run under two of the alternation orders.                      *)
ServerAlternationOrders ==
    { NonPrefixKeywords \o <<KW_CREATE, KW_CREATE_EXTENSION, KW_CREATE_FUNCTION>>,
      NonPrefixKeywords \o <<KW_CREATE_FUNCTION, KW_CREATE_EXTENSION, KW_CREATE>> }

Init ==
    /\ database = ServerDatabase
    /\ settings \in [read_only_connection : BOOLEAN]
    /\ alternation \in ServerAlternationOrders
    /\ pc = [c \in Threads |-> "idle"]
    /\ request = [c \in Threads |-> NoRequest]
    /\ frame = [c \in Threads |-> EmptyFrame]
    /\ trace = [c \in Threads |-> <<>>]
    /\ result = [c \in Threads |-> NoPending]
    /\ connections = <<>>
    /\ cursors = <<>>

----------------------------------------------------------------------------
(* v1/server.py: execute_sql.                                              *)

MSG_READONLY == <<"E","r","r","o","r",":"," ","Y","o","u","r"," ","M","C","P"," ","t","o","o","l"," ","o","n","l","y"," ","a","l","l","o","w","s"," ","r","e","a","d","o","n","l","y"," ","q","u","e","r","y","."," "," "," "," "," "," "," "," "," "," "," "," "," "," "," "," "," ","I","f"," ","y","o","u"," ","w","a","n","t"," ","t","o"," ","w","r","i","t","e",","," ","c","h","a","n","g","e"," ","t","h","e"," ","M","C","P"," ","c","o","n","f","i","g","u","r","a","t","i","o","n">>
MSG_SUSPICIOUS_QUERY == <<"Q","u","e","r","y"," ","p","a","r","a","m","e","t","e","r"," ","c","o","n","t","a","i","n","s"," ","s","u","s","p","i","c","i","o","u","s"," ","p","a","t","t","e","r","n"," ","w","i","t","h"," ","f","o","l","l","o","w","i","n","g"," ","i","s","s","u","e","s",":"," ">>
MSG_ERROR == <<"E","r","r","o","r"," ","e","x","e","c","u","t","i","n","g"," ","q","u","e","r","y",":"," ">>
MSG_ROWS_AFFECTED == <<"Q","u","e","r","y"," ","e","x","e","c","u","t","e","d"," ","s","u","c","c","e","s","s","f","u","l","l","y","."," ","R","o","w","s"," ","a","f","f","e","c","t","e","d",":"," ">>
STR_SELECT == <<"S","E","L","E","C","T">>
STR_WITH == <<"W","I","T","H">>

\* The classification functions are pure: each is evaluated once per text
\* and the values are kept in a table.
detect_memo ==
    [p \in { <<a, q>> : a \in ServerAlternationOrders, q \in Queries } |->
        detect_mutating_keywords(p[2], p[1])]

issues_memo == [q \in Queries |-> check_sql_injection_risk(q)]

\* line 225: detect_mutating_keywords(query), from the table when it holds
\* the text
detect_of(query, order) ==
    IF order \in ServerAlternationOrders /\ query \in Queries
    THEN detect_memo[<<order, query>>]
    ELSE detect_mutating_keywords(query, order)

\* line 234: check_sql_injection_risk(query), from the table when it holds
\* the text
issues_of(query) ==
    IF query \in Queries THEN issues_memo[query] ELSE check_sql_injection_risk(query)

\* a gate that skips the read-only check
PolicyGate_no_read_only(read_only_connection, matches, issues) ==
    IF issues # <<>> THEN "suspicious" ELSE "allow"

\* a gate that skips the injection check
PolicyGate_no_injection(read_only_connection, matches, issues) ==
    IF read_only_connection /\ matches # <<>> THEN "read_only" ELSE "allow"

\* a gate that checks for injection in read-only mode alone
PolicyGate_nested(read_only_connection, matches, issues) ==
    IF read_only_connection /\ matches # <<>> THEN "read_only"
    ELSE IF read_only_connection /\ issues # <<>> THEN "suspicious"
    ELSE "allow"

\* a gate that checks for injection first
PolicyGate_injection_first(read_only_connection, matches, issues) ==
    IF issues # <<>> THEN "suspicious"
    ELSE IF read_only_connection /\ matches # <<>> THEN "read_only"
    ELSE "allow"

\* lines 224-240: what execute_sql decides before it opens a connection,
\* given the list detect_mutating_keywords returned in read-only mode and
\* the list check_sql_injection_risk returns
PolicyGate(read_only_connection, matches, issues) ==
    IF read_only_connection /\ matches # <<>> THEN "read_only"
    ELSE IF issues # <<>> THEN "suspicious"
    ELSE "allow"

\* line 248: query.strip().upper().startswith(("SELECT", "WITH"))
StartsWithSelectOrWith(query) ==
    LET q == upper(strip(query))
    IN  startswith(q, STR_SELECT) \/ startswith(q, STR_WITH)

read_memo == [q \in Queries |-> StartsWithSelectOrWith(q)]

IsReadStatement(query) ==
    IF query \in Queries THEN read_memo[query] ELSE StartsWithSelectOrWith(query)

\* a result text without the header line
FormatRows_no_header(description, rows) ==
    join(<<"\n">>, [i \in DOMAIN rows |->
                      join(<<",">>, [j \in DOMAIN rows[i] |-> str(rows[i][j])])])

\* lines 249-252: the text of a result set
FormatRows(description, rows) ==
    LET columns == description
        lines == [i \in DOMAIN rows |->
                    join(<<",">>, [j \in DOMAIN rows[i] |-> str(rows[i][j])])]
    IN  join(<<"\n">>, <<join(<<",">>, columns)>> \o lines)

\* line 257
FormatRowsAffected(affected_rows) == MSG_ROWS_AFFECTED \o IntToStr(affected_rows)

\* line 261
FormatError(e) == MSG_ERROR \o e

\* the identity of a new driver object made on thread c
FreshId(objects, c) ==
    LET n == CHOOSE i \in 1..(Cardinality(DOMAIN objects) + 1) :
                /\ <<c, i>> \notin DOMAIN objects
                /\ \A j \in 1..(i - 1) : <<c, j>> \in DOMAIN objects
    IN  <<c, n>>

\* pg8000.connect: a new open connection, used by the call on thread k
NewConnection(k) == [closed |-> FALSE, users |-> {k}, commits |-> 0]

\* cnxn.cursor(): a new cursor of connection cn, used by the call on thread k
NewCursor(cn, k) ==
    [cnxn |-> cn, closed |-> FALSE, users |-> {k}, executed |-> <<>>,
     description |-> None, rows |-> <<>>, rowcount |-> -1]

\* trace[c] names each call the tool made, with ":raise" when it raised
Log(c, event) == trace' = [trace EXCEPT ![c] = Append(@, event)]

\* the hosting layer calls the tool execute_sql(query) on an idle thread
Call_execute_sql(c, query) ==
    /\ pc[c] = "idle"
    /\ request' = [request EXCEPT ![c] = [op |-> "execute_sql", query |-> query]]
    /\ frame' = [frame EXCEPT ![c] = EmptyFrame]
    /\ trace' = [trace EXCEPT ![c] = <<>>]
    /\ result' = [result EXCEPT ![c] = NoPending]
    /\ pc' = [pc EXCEPT ![c] = "gate"]
    /\ UNCHANGED <<database, settings, alternation, connections, cursors>>

STR_SELECT_FROM == <<"S","E","L","E","C","T"," ","*"," ","F","R","O","M"," ">>
STR_LIMIT == <<" ","L","I","M","I","T"," ">>

\* a query text that names the schema public whatever schema is asked for
get_table_data_query_public(table_name, schema_name, max_rows) ==
    STR_SELECT_FROM \o <<"p","u","b","l","i","c">> \o <<".">> \o table_name
        \o STR_LIMIT \o IntToStr(max_rows)

\* line 40: f"SELECT * FROM {schema_name}.{table_name} LIMIT {max_rows}"
get_table_data_query(table_name, schema_name, max_rows) ==
    STR_SELECT_FROM \o schema_name \o <<".">> \o table_name
        \o STR_LIMIT \o IntToStr(max_rows)

\* the hosting layer reads the resource get_table_data on an idle thread
Call_get_table_data(c, table_name, schema_name, max_rows) ==
    /\ pc[c] = "idle"
    /\ request' = [request EXCEPT ![c] =
          [op |-> "get_table_data", table_name |-> table_name,
           schema_name |-> schema_name, max_rows |-> max_rows]]
    /\ frame' = [frame EXCEPT ![c] = EmptyFrame]
    /\ trace' = [trace EXCEPT ![c] = <<>>]
    /\ result' = [result EXCEPT ![c] = NoPending]
    /\ pc' = [pc EXCEPT ![c] = "resource"]
    /\ UNCHANGED <<database, settings, alternation, connections, cursors>>

\* lines 40-42: the text is built and execute_sql is called with it; what
\* execute_sql returns is returned as it is.  caller keeps the arguments
\* of get_table_data
get_table_data(c) ==
    /\ pc[c] = "resource"
    /\ request' = [request EXCEPT ![c] =
          [op |-> "execute_sql",
           query |-> get_table_data_query(request[c].table_name, request[c].schema_name,
                                          request[c].max_rows),
           caller |-> request[c]]]
    /\ pc' = [pc EXCEPT ![c] = "gate"]
    /\ UNCHANGED <<database, settings, alternation, frame, trace, result,
                   connections, cursors>>

\* lines 224-240: classification and the policy gate
execute_sql_gate(c) ==
    /\ pc[c] = "gate"
    /\ request[c].op = "execute_sql"
    /\ LET query == request[c].query
           read_only == settings.read_only_connection
           issues == issues_of(query)
       IN  \E matches \in (IF read_only THEN detect_of(query, alternation) ELSE {<<>>}) :
             LET verdict == PolicyGate(read_only, matches, issues)
                 classified ==
                    (IF read_only THEN <<"detect_mutating_keywords">> ELSE <<>>)
                    \o (IF verdict = "read_only" THEN <<>> ELSE <<"check_sql_injection_risk">>)
             IN  /\ trace' = [trace EXCEPT ![c] = @ \o classified]
                 /\ CASE verdict = "read_only" ->
                           /\ result' = [result EXCEPT ![c] = Returns(MSG_READONLY)]
                           /\ pc' = [pc EXCEPT ![c] = "done"]
                      [] verdict = "suspicious" ->
                           /\ result' = [result EXCEPT ![c] =
                                Returns(MSG_SUSPICIOUS_QUERY \o repr_issues(issues))]
                           /\ pc' = [pc EXCEPT ![c] = "done"]
                      [] OTHER ->
                           /\ result' = result
                           /\ pc' = [pc EXCEPT ![c] = "connect"]
    /\ UNCHANGED <<database, settings, alternation, request, frame,
                   connections, cursors>>

\* lines 242, 56, 171: with get_cnxn(settings) as cnxn.  pg8000.connect
\* gives a new connection or raises, and then the call raises: the with
\* statement stands outside the try of every tool
get_cnxn(c) ==
    /\ pc[c] = "connect"
    /\ \/ LET id == FreshId(connections, c) IN
          /\ connections' = (id :> NewConnection(c)) @@ connections
          /\ frame' = [frame EXCEPT ![c].cnxn = id]
          /\ Log(c, "connect")
          /\ pc' = [pc EXCEPT ![c] = "cursor"]
          /\ result' = result
       \/ \E e \in ConnectErrors :
          /\ Log(c, "connect:raise")
          /\ result' = [result EXCEPT ![c] = Raises(e)]
          /\ pc' = [pc EXCEPT ![c] = "done"]
          /\ UNCHANGED <<connections, frame>>
    /\ UNCHANGED <<database, settings, alternation, request, cursors>>

\* lines 243, 57, 172: cursor = cnxn.cursor(), before the try: when it
\* raises, the with statement closes the connection and the call raises
cnxn_cursor(c) ==
    /\ pc[c] = "cursor"
    /\ LET cn == frame[c].cnxn IN
       /\ connections' = [connections EXCEPT ![cn].users = @ \cup {c}]
       /\ \/ LET id == FreshId(cursors, c) IN
             /\ cursors' = (id :> NewCursor(cn, c)) @@ cursors
             /\ frame' = [frame EXCEPT ![c].cursor = id]
             /\ Log(c, "cursor")
             /\ pc' = [pc EXCEPT ![c] = "execute"]
          \/ \E e \in DriverErrors :
             /\ frame' = [frame EXCEPT ![c].pending = Raises(e)]
             /\ Log(c, "cursor:raise")
             /\ pc' = [pc EXCEPT ![c] = "exit"]
             /\ cursors' = cursors
    /\ UNCHANGED <<database, settings, alternation, request, result>>

\* an except clause that hands the exception on
ExceptClause_reraise(op, e) == Raises(e)

\* what a tool returns from its except clause: execute_sql line 261, the
\* introspection tools lines 103 and 213
ExceptClause(op, e) ==
    IF op = "execute_sql" THEN Returns(FormatError(e)) ELSE Returns(<<>>)

\* line 246: cursor.execute(query) inside the try.  The database answers
\* with an outcome or the driver raises
execute_sql_execute(c) ==
    /\ pc[c] = "execute"
    /\ request[c].op = "execute_sql"
    /\ LET cur == frame[c].cursor
           query == request[c].query
       IN  \/ \E o \in Outcomes :
                /\ cursors' = [cursors EXCEPT ![cur] =
                      [@ EXCEPT !.users = @ \cup {c},
                                !.executed = Append(@, query),
                                !.description = o.description,
                                !.rows = o.rows,
                                !.rowcount = o.rowcount]]
                /\ frame' = frame
                /\ Log(c, "execute")
                /\ pc' = [pc EXCEPT ![c] = IF IsReadStatement(query) THEN "fetch" ELSE "commit"]
           \/ \E e \in ExecuteErrors :
                /\ cursors' = [cursors EXCEPT ![cur].users = @ \cup {c}]
                /\ frame' = [frame EXCEPT ![c].pending = ExceptClause("execute_sql", e)]
                /\ Log(c, "execute:raise")
                /\ pc' = [pc EXCEPT ![c] = "finally"]
    /\ UNCHANGED <<database, settings, alternation, request, result, connections>>

\* a read branch that commits after fetching
execute_sql_fetch_committing(c) ==
    /\ pc[c] = "fetch"
    /\ request[c].op = "execute_sql"
    /\ cursors[frame[c].cursor].description # None
    /\ frame' = [frame EXCEPT ![c].pending =
          Returns(FormatRows(cursors[frame[c].cursor].description.v,
                             cursors[frame[c].cursor].rows))]
    /\ trace' = [trace EXCEPT ![c] = Append(Append(@, "fetchall"), "commit")]
    /\ connections' = [connections EXCEPT ![frame[c].cnxn].commits = @ + 1]
    /\ pc' = [pc EXCEPT ![c] = "finally"]
    /\ UNCHANGED <<database, settings, alternation, request, result, cursors>>

\* lines 249-252: the read branch.  Iterating a description of None raises
\* a TypeError before anything is fetched; cursor.fetchall() can raise
execute_sql_fetch(c) ==
    /\ pc[c] = "fetch"
    /\ request[c].op = "execute_sql"
    /\ LET cur == frame[c].cursor IN
       \/ /\ cursors[cur].description = None
          /\ frame' = [frame EXCEPT ![c].pending = ExceptClause("execute_sql", ERR_NoneType)]
          /\ Log(c, "description:raise")
       \/ /\ cursors[cur].description # None
          /\ \/ /\ frame' = [frame EXCEPT ![c].pending =
                        Returns(FormatRows(cursors[cur].description.v, cursors[cur].rows))]
                /\ Log(c, "fetchall")
             \/ \E e \in DriverErrors :
                /\ frame' = [frame EXCEPT ![c].pending = ExceptClause("execute_sql", e)]
                /\ Log(c, "fetchall:raise")
    /\ pc' = [pc EXCEPT ![c] = "finally"]
    /\ UNCHANGED <<database, settings, alternation, request, result,
                   connections, cursors>>

\* a write branch that reports the row count without committing
execute_sql_commit_skipped(c) ==
    /\ pc[c] = "commit"
    /\ request[c].op = "execute_sql"
    /\ frame' = [frame EXCEPT ![c].pending =
                    Returns(FormatRowsAffected(cursors[frame[c].cursor].rowcount))]
    /\ pc' = [pc EXCEPT ![c] = "finally"]
    /\ UNCHANGED <<database, settings, alternation, request, result, trace, connections, cursors>>

\* lines 255-257: the write branch.  cnxn.commit() commits or raises; the
\* row count is read from the cursor after the commit
execute_sql_commit(c) ==
    /\ pc[c] = "commit"
    /\ request[c].op = "execute_sql"
    /\ LET cn == frame[c].cnxn
           cur == frame[c].cursor
       IN  \/ /\ connections' = [connections EXCEPT ![cn].commits = @ + 1,
                                                    ![cn].users = @ \cup {c}]
              /\ frame' = [frame EXCEPT ![c].pending =
                              Returns(FormatRowsAffected(cursors[cur].rowcount))]
              /\ Log(c, "commit")
           \/ \E e \in DriverErrors :
              /\ connections' = [connections EXCEPT ![cn].users = @ \cup {c}]
              /\ frame' = [frame EXCEPT ![c].pending = ExceptClause("execute_sql", e)]
              /\ Log(c, "commit:raise")
    /\ pc' = [pc EXCEPT ![c] = "finally"]
    /\ UNCHANGED <<database, settings, alternation, request, result, cursors>>

\* a finally clause that leaves the cursor open
cursor_close_skipped(c) ==
    /\ pc[c] = "finally"
    /\ pc' = [pc EXCEPT ![c] = "exit"]
    /\ UNCHANGED <<database, settings, alternation, request, frame, result, trace,
                   connections, cursors>>

\* lines 263-264, 104-105, 214-215: finally: cursor.close()
cursor_close(c) ==
    /\ pc[c] = "finally"
    /\ cursors' = [cursors EXCEPT ![frame[c].cursor].closed = TRUE,
                                  ![frame[c].cursor].users = @ \cup {c}]
    /\ Log(c, "cursor.close")
    /\ pc' = [pc EXCEPT ![c] = "exit"]
    /\ UNCHANGED <<database, settings, alternation, request, frame, result,
                   connections>>

\* a with block that leaves the connection open
cnxn_exit_leaks(c) ==
    /\ pc[c] = "exit"
    /\ result' = [result EXCEPT ![c] = frame[c].pending]
    /\ pc' = [pc EXCEPT ![c] = "done"]
    /\ UNCHANGED <<database, settings, alternation, request, frame, trace, connections, cursors>>

\* the end of the with block: Connection.__exit__ closes the connection,
\* then the pending return value or exception leaves the call
cnxn_exit(c) ==
    /\ pc[c] = "exit"
    /\ connections' = [connections EXCEPT ![frame[c].cnxn].closed = TRUE,
                                          ![frame[c].cnxn].users = @ \cup {c}]
    /\ Log(c, "cnxn.close")
    /\ result' = [result EXCEPT ![c] = frame[c].pending]
    /\ pc' = [pc EXCEPT ![c] = "done"]
    /\ UNCHANGED <<database, settings, alternation, request, frame, cursors>>

----------------------------------------------------------------------------
(* v1/server.py: get_tables and get_table_schemas.  The values of catalog  *)
(* rows are never taken apart, so a str value holds a plain string.        *)

\* the truth value of a Python value: None, "" and 0 are false
Truthy(x) ==
    CASE x.t = "None" -> FALSE
      [] x.t = "str" -> x.v # ""
      [] x.t = "int" -> x.v # 0

\* lines 91-100: the descriptors of the fetched rows (name, type, description)
get_tables_output(tables) ==
    [i \in DOMAIN tables |->
        [name |-> tables[i][1],
         type |-> tables[i][2],
         description |-> IF Truthy(tables[i][3]) THEN tables[i][3] ELSE None]]

\* col[k] of a fetched row: Python counts from 0
Col(col, k) == col[k + 1]

\* lines 189-196: the foreign key of a joined row
ForeignKey(col) ==
    IF Truthy(Col(col, 8))
    THEN [t |-> "dict",
          referenced_schema |-> Col(col, 9),
          referenced_table |-> Col(col, 10),
          referenced_column |-> Col(col, 11)]
    ELSE None

\* lines 198-208: the column dictionary of a joined row
ColumnInfo(col) ==
    [name |-> Col(col, 0),
     type |-> Col(col, 1),
     max_length |-> Col(col, 2),
     nullable |-> Col(col, 3),
     default |-> Col(col, 4),
     description |-> IF Truthy(Col(col, 5)) THEN Col(col, 5) ELSE None,
     foreign_key |-> ForeignKey(col)]

\* a loop that opens a new entry for every row
GroupRow_always_new(tables_schemas, col, schema_name) ==
    Append(tables_schemas,
           [name |-> Col(col, 7),
            schema |-> schema_name,
            description |-> IF Truthy(Col(col, 6)) THEN Col(col, 6) ELSE None,
            columns |-> <<ColumnInfo(col)>>])

\* a loop that puts the entry of a new table before the others
GroupRow_new_table_first(tables_schemas, col, schema_name) ==
    LET table_name == Col(col, 7)
        known == \E i \in DOMAIN tables_schemas : tables_schemas[i].name = table_name
        added == IF known THEN tables_schemas
                 ELSE <<[name |-> table_name,
                         schema |-> schema_name,
                         description |-> IF Truthy(Col(col, 6)) THEN Col(col, 6) ELSE None,
                         columns |-> <<>>]>> \o tables_schemas
        at == CHOOSE i \in DOMAIN added : added[i].name = table_name
    IN  [added EXCEPT ![at].columns = Append(@, ColumnInfo(col))]

\* lines 179-208: one turn of the loop over the fetched rows.  tables_schemas
\* is the dictionary as the sequence of its values in insertion order
GroupRow(tables_schemas, col, schema_name) ==
    LET table_name == Col(col, 7)
        known == \E i \in DOMAIN tables_schemas : tables_schemas[i].name = table_name
        added == IF known THEN tables_schemas
                 ELSE Append(tables_schemas,
                        [name |-> table_name,
                         schema |-> schema_name,
                         description |-> IF Truthy(Col(col, 6)) THEN Col(col, 6) ELSE None,
                         columns |-> <<>>])
        at == CHOOSE i \in DOMAIN added : added[i].name = table_name
    IN  [added EXCEPT ![at].columns = Append(@, ColumnInfo(col))]

\* a loop that takes the fetched rows from the last to the first
RECURSIVE GroupColumns_last_first(_, _, _)
GroupColumns_last_first(tables_schemas, columns, schema_name) ==
    IF columns = <<>> THEN tables_schemas
    ELSE GroupColumns_last_first(
             GroupRow(tables_schemas, columns[Len(columns)], schema_name),
             SubSeq(columns, 1, Len(columns) - 1), schema_name)

\* lines 177-210: the loop and list(tables_schemas.values())
RECURSIVE GroupColumns(_, _, _)
GroupColumns(tables_schemas, columns, schema_name) ==
    IF columns = <<>> THEN tables_schemas
    ELSE GroupColumns(GroupRow(tables_schemas, Head(columns), schema_name),
                      Tail(columns), schema_name)

get_table_schemas_output(columns, schema_name) == GroupColumns(<<>>, columns, schema_name)

\* the hosting layer calls the tool get_tables(schema_name) on an idle thread;
\* the tool connects at once (line 56)
Call_get_tables(c, schema_name) ==
    /\ pc[c] = "idle"
    /\ request' = [request EXCEPT ![c] = [op |-> "get_tables", schema_name |-> schema_name]]
    /\ frame' = [frame EXCEPT ![c] = EmptyFrame]
    /\ trace' = [trace EXCEPT ![c] = <<>>]
    /\ result' = [result EXCEPT ![c] = NoPending]
    /\ pc' = [pc EXCEPT ![c] = "connect"]
    /\ UNCHANGED <<database, settings, alternation, connections, cursors>>

\* the hosting layer calls the tool get_table_schemas(tables, schema_name) on
\* an idle thread; the tool connects at once (line 171)
Call_get_table_schemas(c, tables, schema_name) ==
    /\ pc[c] = "idle"
    /\ request' = [request EXCEPT ![c] =
          [op |-> "get_table_schemas", tables |-> tables, schema_name |-> schema_name]]
    /\ frame' = [frame EXCEPT ![c] = EmptyFrame]
    /\ trace' = [trace EXCEPT ![c] = <<>>]
    /\ result' = [result EXCEPT ![c] = NoPending]
    /\ pc' = [pc EXCEPT ![c] = "connect"]
    /\ UNCHANGED <<database, settings, alternation, connections, cursors>>

\* lines 60-87 and 174: cursor.execute of the catalog query inside the try.
\* The database answers with rows or the driver raises
introspect_execute(c) ==
    /\ pc[c] = "execute"
    /\ request[c].op \in {"get_tables", "get_table_schemas"}
    /\ LET cur == frame[c].cursor IN
       \/ \E rows \in (IF request[c].op = "get_tables"
                       THEN get_tables_query(database, request[c].schema_name)
                       ELSE get_table_schemas_query(database, request[c].schema_name,
                                                    request[c].tables)) :
            /\ cursors' = [cursors EXCEPT ![cur] =
                  [@ EXCEPT !.users = @ \cup {c},
                            !.executed = Append(@, request[c].op),
                            !.description = [t |-> "list", v |-> <<>>],
                            !.rows = rows,
                            !.rowcount = Len(rows)]]
            /\ frame' = frame
            /\ Log(c, "execute")
            /\ pc' = [pc EXCEPT ![c] = "fetch"]
       \/ \E e \in ExecuteErrors :
            /\ cursors' = [cursors EXCEPT ![cur].users = @ \cup {c}]
            /\ frame' = [frame EXCEPT ![c].pending = ExceptClause(request[c].op, e)]
            /\ Log(c, "execute:raise")
            /\ pc' = [pc EXCEPT ![c] = "finally"]
    /\ UNCHANGED <<database, settings, alternation, request, result, connections>>

\* lines 88-100 and 175-210: cursor.fetchall() and the result built from the
\* rows, or the except clause when fetchall raises
introspect_fetch(c) ==
    /\ pc[c] = "fetch"
    /\ request[c].op \in {"get_tables", "get_table_schemas"}
    /\ LET rows == cursors[frame[c].cursor].rows IN
       \/ /\ frame' = [frame EXCEPT ![c].pending =
                Returns(IF request[c].op = "get_tables"
                        THEN get_tables_output(rows)
                        ELSE get_table_schemas_output(rows, request[c].schema_name))]
          /\ Log(c, "fetchall")
       \/ \E e \in DriverErrors :
          /\ frame' = [frame EXCEPT ![c].pending = ExceptClause(request[c].op, e)]
          /\ Log(c, "fetchall:raise")
    /\ pc' = [pc EXCEPT ![c] = "finally"]
    /\ UNCHANGED <<database, settings, alternation, request, result, connections, cursors>>

\* the objects of a finished call that were closed are garbage
Collect(objects, id) ==
    IF id \in DOMAIN objects /\ objects[id].closed
    THEN [i \in DOMAIN objects \ {id} |-> objects[i]]
    ELSE objects

\* the hosting layer takes the result of a finished call; its thread is idle again
Return(c) ==
    /\ pc[c] = "done"
    /\ pc' = [pc EXCEPT ![c] = "idle"]
    /\ request' = [request EXCEPT ![c] = NoRequest]
    /\ frame' = [frame EXCEPT ![c] = EmptyFrame]
    /\ trace' = [trace EXCEPT ![c] = <<>>]
    /\ result' = [result EXCEPT ![c] = NoPending]
    /\ connections' = Collect(connections, frame[c].cnxn)
    /\ cursors' = Collect(cursors, frame[c].cursor)
    /\ UNCHANGED <<database, settings, alternation>>

Next ==
    \E c \in Threads :
        \/ \E query \in Queries : Call_execute_sql(c, query)
        \/ Call_get_tables(c, "public")
        \/ Call_get_table_schemas(c, <<"orders">>, "public")
        \/ execute_sql_gate(c)
        \/ get_cnxn(c)
        \/ cnxn_cursor(c)
        \/ execute_sql_execute(c)
        \/ execute_sql_fetch(c)
        \/ execute_sql_commit(c)
        \/ introspect_execute(c)
        \/ introspect_fetch(c)
        \/ cursor_close(c)
        \/ cnxn_exit(c)
        \/ Return(c)

Spec == Init /\ [][Next]_vars

----------------------------------------------------------------------------
(* mlservice/db.py: detect_mutating_keywords called on its own, over texts *)
(* put together from words and from each entry of the vocabulary in        *)
(* several surroundings, under every order of the alternatives.            *)

LowerOf == [c \in Range(UPPER) |-> LOWER[CHOOSE i \in DOMAIN UPPER : UPPER[i] = c]]

lower(s) == [i \in 1..Len(s) |-> IF s[i] \in DOMAIN LowerOf THEN LowerOf[s[i]] ELSE s[i]]

\* the number of words of the longest text put together from Tokens
MaxWords == 3

Tokens ==
    { KW_CREATE, <<"E","X","T","E","N","S","I","O","N">>,
      <<"D","r","o","p">>, <<"t","a","b","l","e","_","i","n","s","e","r","t">>, <<"t">> }

WordTexts ==
    UNION { { join(<<" ">>, w) : w \in [1..n -> Tokens] } : n \in 1..MaxWords }

\* what stands before and after a vocabulary entry in a text
Before == { <<>>, <<"x">>, <<"a"," ">> }

After == { <<>>, <<";">>, <<"_","y">> }

KeywordTexts ==
    { pre \o k \o post :
        k \in MUTATING_KEYWORDS \cup { lower(e) : e \in MUTATING_KEYWORDS },
        pre \in Before, post \in After }

\* texts whose keywords stand inside longer identifiers
EmbeddedTexts ==
    { <<"t","a","b","l","e","_","i","n","s","e","r","t">>,
      <<"c","o","l","u","m","n","_","u","p","d","a","t","e">>,
      <<"d","e","l","e","t","e","_","v","a","l","u","e">>,
      <<"S","E","L","E","C","T"," ","d","e","l","e","t","e","_","v","a","l","u","e",","," ","u","p","d","a","t","e","2"," ","F","R","O","M"," ","t","a","b","l","e","_","i","n","s","e","r","t">>,
      <<"S","E","L","E","C","T"," ","9","d","r","o","p"," ","F","R","O","M"," ","c","r","e","a","t","e","d">> }

\* the whitespace that stands between the tokens of a tautology or a call
Gaps == { <<>>, <<" ">>, <<"\t">>, <<"\n">>, <<" ","\n","\t">> }

\* OR <number> = <number>, in both cases and after a letter
NumericTexts ==
    { pre \o o \o g1 \o <<"1">> \o g2 \o <<"=">> \o g2 \o <<"2","2">> :
        pre \in { <<>>, <<"x">>, <<"1"," ">> }, o \in { <<"O","R">>, <<"o","r">> },
        g1 \in Gaps, g2 \in { <<>>, <<"\n">> } }

\* OR '<text>' = '<text>'
StringTexts ==
    { <<"o","R">> \o g1 \o q1 \o g2 \o <<"=">> \o q2 :
        g1 \in Gaps, g2 \in { <<>>, <<"\t">> },
        q1 \in { <<"'","a","'">>, <<"'","'">> },
        q2 \in { <<"'","a","'">>, <<"'","b"," ","c","'">>, <<"'","a">> } }

\* calls of the timing and file functions, and the names without a call
CallTexts ==
    { pre \o f \o g \o post :
        pre \in { <<>>, <<"x">>, <<"1",";">> },
        f \in { RE_sleep, upper(RE_sleep), RE_pg_sleep, RE_load_file, upper(RE_load_file) },
        g \in { <<>>, <<" ">>, <<"\n","\t">> }, post \in { <<"(">>, <<>> } }

\* INTO OUTFILE
OutfileTexts ==
    { i \o g \o RE_outfile \o post :
        i \in { RE_into, upper(RE_into) }, g \in Gaps, post \in { <<>>, <<"s">> } }

\* the texts of tests/test_db.py: a tautology followed by DROP, the empty
\* string and a harmless query
TestTexts ==
    { <<"S","E","L","E","C","T"," ","*"," ","F","R","O","M"," ","u","s","e","r","s"," ","W","H","E","R","E"," ","i","d"," ","="," ","1"," ","O","R"," ","1","=","1",";"," ","D","R","O","P"," ","T","A","B","L","E"," ","u","s","e","r","s",";">>,
      <<"1"," ","o","r"," ","1","=","1",";"," ","G","R","A","N","T"," ","S","L","E","E","P","(","5",")">>,
      <<>>,
      <<"S","E","L","E","C","T"," ","i","d"," ","F","R","O","M"," ","u","s","e","r","s"," ","W","H","E","R","E"," ","s","t","a","t","u","s"," ","="," ","'","a","c","t","i","v","e","'">> }

InjectionTexts == NumericTexts \cup StringTexts \cup CallTexts \cup OutfileTexts \cup TestTexts

\* a harmless statement with a keyword in a '--' or a '/* */' comment
CommentTexts ==
    UNION { { <<"S","E","L","E","C","T"," ","1"," ","-","-"," ">> \o k,
              <<"-","-"," ">> \o k \o <<"\n","S","E","L","E","C","T"," ","1">>,
              <<"S","E","L","E","C","T"," ","1"," ","/","*"," ">> \o k \o <<" ","*","/">>,
              <<"/","*">> \o k \o <<"*","/"," ","S","E","L","E","C","T"," ","1">> } :
            k \in MUTATING_KEYWORDS \cup { lower(KW_DELETE), lower(KW_DROP) } }

SqlTexts == WordTexts \cup KeywordTexts \cup EmbeddedTexts \cup CommentTexts

InitDetect ==
    /\ database = EmptyDatabase
    /\ settings = [read_only_connection |-> TRUE]
    /\ alternation \in AlternationOrders
    /\ pc = [c \in Threads |-> "idle"]
    /\ request = [c \in Threads |-> NoRequest]
    /\ frame = [c \in Threads |-> EmptyFrame]
    /\ trace = [c \in Threads |-> <<>>]
    /\ result = [c \in Threads |-> NoPending]
    /\ connections = <<>>
    /\ cursors = <<>>

\* a caller hands a text to detect_mutating_keywords
Call_detect_mutating_keywords(c, sql_text) ==
    /\ pc[c] = "idle"
    /\ request' = [request EXCEPT ![c] =
                      [op |-> "detect_mutating_keywords", sql_text |-> sql_text]]
    /\ pc' = [pc EXCEPT ![c] = "detect"]
    /\ UNCHANGED <<database, settings, alternation, frame, trace, result, connections, cursors>>

\* lines 133-138: the list the call returns
detect_mutating_keywords_return(c) ==
    /\ pc[c] = "detect"
    /\ \E matchedKeywords \in detect_mutating_keywords(request[c].sql_text, alternation) :
          result' = [result EXCEPT ![c] = Returns(matchedKeywords)]
    /\ Log(c, "detect_mutating_keywords")
    /\ pc' = [pc EXCEPT ![c] = "done"]
    /\ UNCHANGED <<database, settings, alternation, request, frame, connections, cursors>>

\* a caller hands a text to check_sql_injection_risk
Call_check_sql_injection_risk(c, sql) ==
    /\ pc[c] = "idle"
    /\ request' = [request EXCEPT ![c] =
                      [op |-> "check_sql_injection_risk", sql |-> sql]]
    /\ pc' = [pc EXCEPT ![c] = "check"]
    /\ UNCHANGED <<database, settings, alternation, frame, trace, result, connections, cursors>>

\* lines 141-161: the list the call returns
check_sql_injection_risk_return(c) ==
    /\ pc[c] = "check"
    /\ result' = [result EXCEPT ![c] = Returns(check_sql_injection_risk(request[c].sql))]
    /\ Log(c, "check_sql_injection_risk")
    /\ pc' = [pc EXCEPT ![c] = "done"]
    /\ UNCHANGED <<database, settings, alternation, request, frame, connections, cursors>>

\* the texts are classified one call at a time, by
\* detect_mutating_keywords itself or by execute_sql in read-only mode
NextDetect ==
    \/ \E sql_text \in SqlTexts : Call_detect_mutating_keywords("t1", sql_text)
    \/ detect_mutating_keywords_return("t1")
    \/ \E sql \in InjectionTexts : Call_check_sql_injection_risk("t1", sql)
    \/ check_sql_injection_risk_return("t1")
    \/ \E query \in SqlTexts : Call_execute_sql("t1", query)
    \/ execute_sql_gate("t1")
    \/ get_cnxn("t1")
    \/ cnxn_cursor("t1")
    \/ execute_sql_execute("t1")
    \/ execute_sql_fetch("t1")
    \/ execute_sql_commit("t1")
    \/ cursor_close("t1")
    \/ cnxn_exit("t1")
    \/ Return("t1")

SpecDetect == InitDetect /\ [][NextDetect]_vars

----------------------------------------------------------------------------
(* v1/server.py: get_tables and get_table_schemas called one at a time     *)
(* against databases of every shape the claims about them speak of.        *)

\* databases of tables: each of public.orders, public.stats and
\* archive.orders is absent, or a table, view or materialized view with or
\* without a comment
TableDatabases ==
    LET Slots == { <<"public", "orders">>, <<"public", "stats">>, <<"archive", "orders">> }
        Doc(slot) ==
            CASE slot = <<"public", "orders">> -> "Current orders"
              [] slot = <<"public", "stats">> -> "Statistics"
              [] slot = <<"archive", "orders">> -> "Archived orders"
        RelationChoices ==
            { o \in [relkind : {"absent", "r", "v", "m"}, documented : BOOLEAN] :
                o.relkind = "absent" => ~o.documented }
    IN  { [pg_class |->
              { Relation(sl[1], sl[2], f[sl].relkind,
                         IF f[sl].documented THEN Doc(sl) ELSE NULL) :
                  sl \in { x \in Slots : f[x].relkind # "absent" } },
           pg_attribute |-> {},
           constraints |-> {}] : f \in [Slots -> RelationChoices] }

\* the constraints the table orders can carry: a primary key, foreign keys of
\* one column, two foreign keys on the same column, a foreign key of two
\* columns, a foreign key on the primary key column
ConstraintChoices ==
    { Constraint("orders_pkey", "PRIMARY KEY", "orders", <<"id">>,
                 << <<"public", "orders", "id">> >>),
      Constraint("orders_customer_fk", "FOREIGN KEY", "orders", <<"customer_id">>,
                 << <<"public", "customers", "id">> >>),
      Constraint("orders_account_fk", "FOREIGN KEY", "orders", <<"customer_id">>,
                 << <<"public", "accounts", "id">> >>),
      Constraint("orders_region_fk", "FOREIGN KEY", "orders", <<"customer_id", "region">>,
                 << <<"public", "customers", "id">>, <<"public", "customers", "region">> >>),
      Constraint("orders_id_fk", "FOREIGN KEY", "orders", <<"id">>,
                 << <<"public", "customers", "id">> >>) }

\* customers and accounts, orders with or without a comment and with any of
\* the constraints, and possibly a table orders in another schema
SchemaDatabases ==
    { [pg_class |->
          { Relation("public", "customers", "r", NULL),
            Relation("public", "accounts", "r", NULL),
            Relation("public", "orders", "r", description) }
          \cup (IF archived THEN { Relation("archive", "orders", "r", "Archived orders") } ELSE {}),
       pg_attribute |->
          { Attribute("public", "customers", "id", 1, TRUE, NULL),
            Attribute("public", "customers", "region", 2, TRUE, NULL),
            Attribute("public", "accounts", "id", 1, TRUE, NULL),
            Attribute("public", "orders", "id", 1, TRUE, "Order number"),
            Attribute("public", "orders", "customer_id", 2, FALSE, NULL),
            Attribute("public", "orders", "region", 3, FALSE, NULL) }
          \cup (IF archived THEN { Attribute("archive", "orders", "legacy_id", 1, TRUE, NULL) } ELSE {}),
       constraints |-> constraints] :
        description \in { NULL, "Customer orders" }, archived \in BOOLEAN,
        constraints \in SUBSET ConstraintChoices }

\* the lists of table names get_table_schemas is called with
TableLists ==
    { <<>>, <<"missing">>, <<"orders">>, <<"orders", "customers">>, <<"missing", "orders">>,
      <<"orders", "orders">> }

InitCatalog ==
    /\ database \in TableDatabases \cup SchemaDatabases
    /\ settings = [read_only_connection |-> TRUE]
    /\ alternation = NonPrefixKeywords \o <<KW_CREATE, KW_CREATE_EXTENSION, KW_CREATE_FUNCTION>>
    /\ pc = [c \in Threads |-> "idle"]
    /\ request = [c \in Threads |-> NoRequest]
    /\ frame = [c \in Threads |-> EmptyFrame]
    /\ trace = [c \in Threads |-> <<>>]
    /\ result = [c \in Threads |-> NoPending]
    /\ connections = <<>>
    /\ cursors = <<>>

NextCatalog ==
    \/ \E schema_name \in {"public", "archive"} : Call_get_tables("t1", schema_name)
    \/ \E tables \in TableLists, schema_name \in {"public", "archive"} :
          Call_get_table_schemas("t1", tables, schema_name)
    \/ get_cnxn("t1")
    \/ cnxn_cursor("t1")
    \/ introspect_execute("t1")
    \/ introspect_fetch("t1")
    \/ cursor_close("t1")
    \/ cnxn_exit("t1")
    \/ Return("t1")

SpecCatalog == InitCatalog /\ [][NextCatalog]_vars

----------------------------------------------------------------------------
(* Properties of execute_sql.                                              *)

\* the calls of execute_sql that have passed the gate, and those that ended
Gated(c) == request[c].op = "execute_sql" /\ pc[c] # "gate"

Ended(c) == request[c].op = "execute_sql" /\ pc[c] = "done"

\* detect_mutating_keywords returns a non-empty list for the query of c
mutating_memo ==
    [p \in { <<a, q>> : a \in ServerAlternationOrders, q \in Queries } |->
        detect_memo[p] # {<<>>}]

Mutating(c) == mutating_memo[<<alternation, request[c].query>>]

\* check_sql_injection_risk returns an issue for the query of c
Suspicious(c) == issues_memo[request[c].query] # <<>>

Classifiers == {"detect_mutating_keywords", "check_sql_injection_risk"}

Has(c, event) == \E i \in DOMAIN trace[c] : trace[c][i] = event

Count(c, event) == Cardinality({ i \in DOMAIN trace[c] : trace[c][i] = event })

\* the first place of event in the trace of c (0 when it has none)
Place(c, event) ==
    IF Has(c, event) THEN CHOOSE i \in DOMAIN trace[c] :
                            /\ trace[c][i] = event
                            /\ \A j \in 1..(i - 1) : trace[c][j] # event
    ELSE 0

\* the call on c has not reached the driver: no connection, no cursor,
\* nothing executed, fetched or committed
NoDatabaseAccess(c) ==
    /\ \A i \in DOMAIN trace[c] : trace[c][i] \in Classifiers
    /\ frame[c].cnxn = NoObject
    /\ frame[c].cursor = NoObject
    /\ \A id \in DOMAIN connections : c \notin connections[id].users
    /\ \A id \in DOMAIN cursors : c \notin cursors[id].users

\* C1: in read-only mode a call of execute_sql whose query holds a mutating
\* keyword returns the read-only rejection and never reaches the database.
C1_ReadOnlyRejection ==
    \A c \in Threads :
        (request[c].op = "execute_sql" /\ settings.read_only_connection /\ Mutating(c))
        => /\ NoDatabaseAccess(c)
           /\ Gated(c) => (pc[c] = "done" /\ result[c] = Returns(MSG_READONLY))

C1_Witness ==
    \E c \in Threads :
        /\ Ended(c) /\ settings.read_only_connection /\ Mutating(c)
        /\ request[c].query = Q_DELETE
        /\ result[c] = Returns(MSG_READONLY)

\* the text a suspicious query is answered with
SuspiciousAnswer(query) ==
    MSG_SUSPICIOUS_QUERY \o repr_issues(check_sql_injection_risk(query))

suspicious_memo == [q \in Queries |-> SuspiciousAnswer(q)]

\* C2: in either mode a call of execute_sql whose query yields an injection
\* issue, and is not rejected as mutating, returns the suspicious-pattern
\* message with the issues and never reaches the database.
C2_SuspiciousRejection ==
    \A c \in Threads :
        (request[c].op = "execute_sql" /\ Suspicious(c)
            /\ ~(settings.read_only_connection /\ Mutating(c)))
        => /\ NoDatabaseAccess(c)
           /\ Gated(c) => /\ pc[c] = "done"
                          /\ result[c] = Returns(suspicious_memo[request[c].query])
                          /\ startswith(result[c].value, MSG_SUSPICIOUS_QUERY)

C2_Witness ==
    \E c \in Threads :
        /\ Ended(c) /\ ~settings.read_only_connection
        /\ request[c].query = Q_DROP /\ Mutating(c) /\ Suspicious(c)
        /\ startswith(result[c].value, MSG_SUSPICIOUS_QUERY)
        /\ NoDatabaseAccess(c)

\* the gate lets the query of c through
Allowed(c) == ~(settings.read_only_connection /\ Mutating(c)) /\ ~Suspicious(c)

\* the call on c has tried to open a connection
TriedConnect(c) == Has(c, "connect") \/ Has(c, "connect:raise")

\* the call on c has handed its statement to cursor.execute
Submitted(c) == Has(c, "execute") \/ Has(c, "execute:raise")

\* the classification of c was complete before the connection was asked for
ClassifiedFirst(c) ==
    /\ Has(c, "check_sql_injection_risk")
    /\ settings.read_only_connection => Has(c, "detect_mutating_keywords")
    /\ \A i \in DOMAIN trace[c] :
          trace[c][i] \in Classifiers => \A j \in 1..(i - 1) : trace[c][j] \in Classifiers

\* C3 as stated: a finished call has opened a connection and called
\* cursor.execute exactly when the gate allows its query.
C3_SubmittedIffAllowed ==
    \A c \in Threads :
        Ended(c) => ((Has(c, "connect") /\ Submitted(c)) <=> Allowed(c))

\* C3, amended: a call asks for a connection exactly when the gate allows its
\* query, with the classification complete before; cursor.execute is called
\* only then, and always once the connection and the cursor are there.
C3_ClassificationPrecedesExecution ==
    \A c \in Threads :
        /\ Gated(c) => (TriedConnect(c) \/ pc[c] = "connect") = Allowed(c)
        /\ (request[c].op = "execute_sql" /\ (TriedConnect(c) \/ Submitted(c)))
              => Allowed(c) /\ ClassifiedFirst(c)
        /\ (Ended(c) /\ Allowed(c) /\ Has(c, "connect") /\ Has(c, "cursor"))
              => Submitted(c)

C3_Witness ==
    \E c \in Threads :
        /\ Ended(c) /\ Allowed(c) /\ settings.read_only_connection
        /\ trace[c][1] = "detect_mutating_keywords"
        /\ trace[c][2] = "check_sql_injection_risk"
        /\ trace[c][3] = "connect"
        /\ Has(c, "execute")

\* the verdict a finished call shows: the read-only rejection, the
\* suspicious-pattern rejection, or the call went on to the database
ShowsReadOnly(c) == result[c] = Returns(MSG_READONLY) /\ ~TriedConnect(c)

ShowsSuspicious(c) ==
    /\ result[c].kind = "return"
    /\ startswith(result[c].value, MSG_SUSPICIOUS_QUERY)
    /\ ~TriedConnect(c)

ShowsAllowed(c) == TriedConnect(c)

\* C4: the gate has a fixed precedence: read-only verdict for a mutating
\* query in read-only mode, also when it matches an injection pattern; else
\* the suspicious verdict for a query with an issue; else allowed; and
\* exactly one of the three for each call.
C4_GatePrecedence ==
    \A c \in Threads :
        Ended(c) =>
            /\ ShowsReadOnly(c) = (settings.read_only_connection /\ Mutating(c))
            /\ ShowsSuspicious(c) =
                  (~(settings.read_only_connection /\ Mutating(c)) /\ Suspicious(c))
            /\ ShowsAllowed(c) = Allowed(c)
            /\ Cardinality({ v \in {"read_only", "suspicious", "allow"} :
                    \/ v = "read_only" /\ ShowsReadOnly(c)
                    \/ v = "suspicious" /\ ShowsSuspicious(c)
                    \/ v = "allow" /\ ShowsAllowed(c) }) = 1

C4_Witness ==
    \E c \in Threads :
        /\ Ended(c) /\ settings.read_only_connection
        /\ request[c].query = Q_DROP /\ Mutating(c) /\ Suspicious(c)
        /\ ShowsReadOnly(c)

\* a driver call of c has raised
Failed(c) ==
    \E i \in DOMAIN trace[c] :
        trace[c][i] \in {"connect:raise", "cursor:raise", "execute:raise",
                         "description:raise", "fetchall:raise", "commit:raise"}

\* C5 as stated: a finished call of execute_sql has returned a string, and
\* when a driver call failed for an allowed query, the string is
\* 'Error executing query: ' followed by the message.
C5_ErrorsAreReturned ==
    \A c \in Threads :
        Ended(c) =>
            /\ result[c].kind = "return"
            /\ (Allowed(c) /\ Failed(c)) => startswith(result[c].value, MSG_ERROR)

\* an allowed query whose connection is refused: the call raises
C5_Witness ==
    \E c \in Threads :
        /\ Ended(c) /\ Allowed(c) /\ request[c].query = Q_SELECT
        /\ trace[c] = <<"check_sql_injection_risk", "connect:raise">>
        /\ result[c] = Raises(ERR_refused)

\* the call on c holds the connection cn and has come to its end
Released(c) ==
    LET cn == frame[c].cnxn
        cur == frame[c].cursor
    IN  /\ cn \in DOMAIN connections /\ connections[cn].closed
        /\ Count(c, "cnxn.close") = 1
        /\ Has(c, "cursor") =>
              /\ cur \in DOMAIN cursors /\ cursors[cur].closed
              /\ Count(c, "cursor.close") = 1
              /\ Place(c, "cursor.close") < Place(c, "cnxn.close")

\* C6: a call of execute_sql that acquired a connection has closed its
\* cursor and then its connection when it ends, on the read return, the
\* row-count return and the error return alike; nothing of the call stays
\* open.
C6_ReleaseOnEveryPath ==
    \A c \in Threads :
        /\ (Ended(c) /\ Has(c, "connect")) => Released(c)
        /\ Ended(c) =>
              /\ \A id \in DOMAIN connections : c \in connections[id].users => connections[id].closed
              /\ \A id \in DOMAIN cursors : c \in cursors[id].users => cursors[id].closed

C6_Witness ==
    \E c \in Threads :
        /\ Ended(c) /\ Has(c, "commit:raise")
        /\ result[c] = Returns(MSG_ERROR \o ERR_closed)
        /\ Released(c)
        /\ trace[c][Len(trace[c]) - 1] = "cursor.close"
        /\ trace[c][Len(trace[c])] = "cnxn.close"

\* the calls in flight: begun and not yet at their end
InFlight == { c \in Threads : pc[c] \notin {"idle", "done"} }

OpenConnections == { id \in DOMAIN connections : ~connections[id].closed }

OpenCursors == { id \in DOMAIN cursors : ~cursors[id].closed }

\* C7, the states: under every interleaving of the three tools each call
\* opens at most one connection and one cursor, no connection or cursor is
\* used by two calls, a call at its end has closed what it used, the open
\* connections are no more than the calls in flight and none is open once
\* every call has returned.
OneConnectionPerCall ==
    /\ \A c \in Threads :
          /\ Count(c, "connect") <= 1 /\ Count(c, "cursor") <= 1
          /\ Cardinality({ id \in DOMAIN connections : c \in connections[id].users }) <= 1
          /\ Cardinality({ id \in DOMAIN cursors : c \in cursors[id].users }) <= 1
          /\ pc[c] \in {"idle", "done"} =>
                /\ \A id \in DOMAIN connections :
                      c \in connections[id].users => connections[id].closed
                /\ \A id \in DOMAIN cursors :
                      c \in cursors[id].users => cursors[id].closed
    /\ \A id \in DOMAIN connections : Cardinality(connections[id].users) <= 1
    /\ \A id \in DOMAIN cursors :
          /\ Cardinality(cursors[id].users) <= 1
          /\ cursors[id].users \subseteq connections[cursors[id].cnxn].users
    /\ Cardinality(OpenConnections) <= Cardinality(InFlight)
    /\ Cardinality(OpenCursors) <= Cardinality(InFlight)
    /\ InFlight = {} => OpenConnections = {}

\* C7: concurrent calls share nothing but the settings, which no step of a
\* call changes, and each call has one connection and one cursor of its own,
\* released before it returns.
C7_CallsAreIsolated == []OneConnectionPerCall /\ [][settings' = settings]_vars

C7_Witness ==
    /\ pc["t1"] = "finally" /\ request["t1"].op = "execute_sql"
    /\ pc["t2"] = "finally" /\ request["t2"].op = "get_tables"
    /\ Cardinality(OpenConnections) = 2
    /\ Cardinality(OpenCursors) = 2
    /\ frame["t1"].cnxn # frame["t2"].cnxn

\* the call on c ran an allowed query to its end with no driver call raising
Succeeded(c) == Ended(c) /\ Allowed(c) /\ ~Failed(c)

\* the trimmed text of the query of c begins with SELECT or WITH in any case
ReadStatement(c) == read_memo[request[c].query]

\* C8: an allowed query that is no read statement and whose execution
\* succeeds is committed exactly once, after cursor.execute and before the
\* result is produced, and the call returns 'Query executed successfully.
\* Rows affected: N' with N the cursor's rowcount.
C8_CommitThenRowCount ==
    \A c \in Threads :
        /\ (Succeeded(c) /\ ~ReadStatement(c)) =>
              /\ Count(c, "execute") = 1 /\ Count(c, "commit") = 1
              /\ Place(c, "execute") < Place(c, "commit")
              /\ connections[frame[c].cnxn].commits = 1
              /\ result[c] = Returns(MSG_ROWS_AFFECTED
                                \o IntToStr(cursors[frame[c].cursor].rowcount))
        /\ (request[c].op = "execute_sql" /\ frame[c].pending.kind = "return"
              /\ startswith(frame[c].pending.value, MSG_ROWS_AFFECTED))
              => Has(c, "commit")

C8_Witness ==
    \E c \in Threads :
        /\ Succeeded(c) /\ ~settings.read_only_connection
        /\ request[c].query = Q_DELETE
        /\ cursors[frame[c].cursor].rowcount = 3
        /\ connections[frame[c].cnxn].commits = 1
        /\ result[c] = Returns(MSG_ROWS_AFFECTED \o <<"3">>)

\* the lines of a text: the pieces between its newlines
Lines(text) ==
    LET breaks == { i \in DOMAIN text : text[i] = "\n" }
        starts == {1} \cup { i + 1 : i \in breaks }
        EndOf(b) == IF \E i \in breaks : i >= b
                    THEN (CHOOSE i \in breaks : i >= b /\ \A j \in breaks : j >= b => i <= j) - 1
                    ELSE Len(text)
        Nth[k \in 1..Cardinality(starts)] ==
            CHOOSE b \in starts : Cardinality({ a \in starts : a < b }) = k - 1
    IN  [k \in 1..Cardinality(starts) |-> SubSeq(text, Nth[k], EndOf(Nth[k]))]

\* the fields of a line: the pieces between its commas
Fields(line) ==
    LET breaks == { i \in DOMAIN line : line[i] = "," }
        starts == {1} \cup { i + 1 : i \in breaks }
        EndOf(b) == IF \E i \in breaks : i >= b
                    THEN (CHOOSE i \in breaks : i >= b /\ \A j \in breaks : j >= b => i <= j) - 1
                    ELSE Len(line)
        Nth[k \in 1..Cardinality(starts)] ==
            CHOOSE b \in starts : Cardinality({ a \in starts : a < b }) = k - 1
    IN  [k \in 1..Cardinality(starts) |-> SubSeq(line, Nth[k], EndOf(Nth[k]))]

\* the text of the cells of a row, one after the other with commas between
RowText(row) == join(<<",">>, [j \in DOMAIN row |-> str(row[j])])

\* C9: an allowed read statement whose execution succeeds with k rows
\* returns k + 1 lines: the column names joined by ',', then per row in
\* fetch order the str of its cells joined by ',', with nothing escaped.
C9_TabularResult ==
    \A c \in Threads :
        (Succeeded(c) /\ ReadStatement(c)) =>
            LET cur == cursors[frame[c].cursor]
                lines == Lines(result[c].value)
            IN  /\ result[c].kind = "return"
                /\ Len(lines) = Len(cur.rows) + 1
                /\ Fields(lines[1]) = cur.description.v
                /\ \A i \in DOMAIN cur.rows : lines[i + 1] = RowText(cur.rows[i])
                /\ ~Has(c, "commit")

\* one call has returned two rows, a cell of them holding a comma, and
\* another call no row
C9_Witness ==
    \E c, d \in Threads :
        /\ Succeeded(c) /\ request[c].query = Q_SELECT
        /\ Len(cursors[frame[c].cursor].rows) = 2
        /\ Lines(result[c].value) =
              << <<"i","d",",","n","a","m","e">>,
                 <<"7",",","a",",","b">>,
                 <<"1","2",",","N","o","n","e">> >>
        /\ Len(Fields(Lines(result[c].value)[2])) = 3
        /\ Succeeded(d) /\ ReadStatement(d)
        /\ cursors[frame[d].cursor].rows = <<>>
        /\ result[d] = Returns(<<"i","d",",","n","a","m","e">>)

\* C24 as stated: every allowed statement in which a mutating keyword is
\* detected is committed and answered with the row-count summary, and
\* tabular text (the fetched rows) is returned only for statements in which
\* no mutating keyword is detected, a WITH statement holding DELETE included.
C24_ShapeFollowsClassification ==
    \A c \in Threads :
        Succeeded(c) =>
            /\ Mutating(c) =>
                  /\ Count(c, "commit") = 1
                  /\ result[c] = Returns(MSG_ROWS_AFFECTED
                                    \o IntToStr(cursors[frame[c].cursor].rowcount))
            /\ Has(c, "fetchall") => ~Mutating(c)

\* the WITH statement that deletes, outside read-only mode: delete is
\* detected, the rows are fetched and returned, nothing is committed
C24_Witness ==
    \E c \in Threads :
        /\ Succeeded(c) /\ ~settings.read_only_connection
        /\ request[c].query = Q_with_delete
        /\ Mutating(c)
        /\ Has(c, "execute") /\ Has(c, "fetchall") /\ ~Has(c, "commit")
        /\ connections[frame[c].cnxn].commits = 0
        /\ Len(Lines(result[c].value)) = Len(cursors[frame[c].cursor].rows) + 1
        /\ ~startswith(result[c].value, MSG_ROWS_AFFECTED)

\* the places in the trace of c where cnxn.commit() was called
CommitCalls(c) == { i \in DOMAIN trace[c] : trace[c][i] \in {"commit", "commit:raise"} }

\* C26: in every call of execute_sql commit is invoked at most once, and
\* only after cursor.execute returned without error for a statement that
\* passed the gate and does not begin with SELECT or WITH; a rejected call,
\* a read statement and a statement whose execution raised never commit, and
\* no connection is committed twice.
C26_CommitAtMostOnceAfterWrite ==
    /\ \A c \in Threads :
          request[c].op = "execute_sql" =>
              /\ Cardinality(CommitCalls(c)) <= 1
              /\ \A i \in CommitCalls(c) :
                    /\ Gated(c) /\ Allowed(c) /\ ~ReadStatement(c)
                    /\ Count(c, "execute") = 1 /\ Place(c, "execute") < i
                    /\ ~Has(c, "execute:raise")
              /\ (~Gated(c) \/ ~Allowed(c) \/ ReadStatement(c) \/ Has(c, "execute:raise"))
                    => /\ CommitCalls(c) = {}
                       /\ Has(c, "connect") => connections[frame[c].cnxn].commits = 0
    /\ \A id \in DOMAIN connections : connections[id].commits <= 1

\* one call has committed a DELETE once, one has ended a read statement and
\* another call was rejected before, none of the two with a commit
C26_Witness ==
    \E c, d \in Threads :
        /\ Ended(c) /\ request[c].query = Q_DELETE /\ ~settings.read_only_connection
        /\ Count(c, "commit") = 1 /\ connections[frame[c].cnxn].commits = 1
        /\ Ended(d) /\ request[d].query = Q_SELECT /\ Has(d, "fetchall")
        /\ CommitCalls(d) = {} /\ connections[frame[d].cnxn].commits = 0

----------------------------------------------------------------------------
(* Properties of detect_mutating_keywords.                                 *)

\* the call of detect_mutating_keywords on c has returned
Detected(c) == request[c].op = "detect_mutating_keywords" /\ pc[c] = "done"

\* the entry k stands in t as a word or word pair of its own, in any case
Standalone(k, t) == \E i \in 0..Len(t) : KeywordMatchesAt(t, i, k)

\* C10 as stated: every entry of the vocabulary that stands in the text as
\* a word or word pair of its own is once in the returned list, in upper
\* case.
C10_EveryStandaloneEntryListed ==
    \A c \in Threads :
        Detected(c) =>
            \A k \in MUTATING_KEYWORDS :
                Standalone(k, request[c].sql_text) =>
                    Cardinality({ i \in DOMAIN result[c].value :
                                    result[c].value[i] = k }) = 1

\* CREATE and CREATE EXTENSION both stand in the text, and the returned
\* list holds one of them alone
C10_Witness ==
    \E c \in Threads :
        /\ Detected(c)
        /\ request[c].sql_text = KW_CREATE_EXTENSION \o <<" ", "t">>
        /\ Standalone(KW_CREATE, request[c].sql_text)
        /\ Standalone(KW_CREATE_EXTENSION, request[c].sql_text)
        /\ result[c].value = <<KW_CREATE_EXTENSION>>

\* the occurrence of k at offset i of t has a letter, a digit or an
\* underscore right before it or right after it
Embedded(t, i, k) ==
    \/ i > 0 /\ t[i] \in WordChars
    \/ i + Len(k) < Len(t) /\ t[i + Len(k) + 1] \in WordChars

\* k is written in t, in any letter case, at offset i
Occurs(t, i, k) ==
    /\ i + Len(k) <= Len(t)
    /\ upper(SubSeq(t, i + 1, i + Len(k))) = k

\* every occurrence of a vocabulary entry in t is embedded
OnlyEmbedded(t) ==
    \A k \in MUTATING_KEYWORDS :
        \A i \in 0..Len(t) : Occurs(t, i, k) => Embedded(t, i, k)

\* C11: an embedded occurrence of a keyword never matches: each keyword
\* detect_mutating_keywords lists has an occurrence that is not embedded, a
\* text whose occurrences are all embedded gives the empty list, and
\* execute_sql in read-only mode does not answer it with the read-only
\* rejection but goes on to the injection check.
C11_EmbeddedNeverMatches ==
    \A c \in Threads :
        /\ Detected(c) =>
              /\ \A n \in DOMAIN result[c].value :
                    \E i \in 0..Len(request[c].sql_text) :
                        /\ Occurs(request[c].sql_text, i, result[c].value[n])
                        /\ ~Embedded(request[c].sql_text, i, result[c].value[n])
              /\ OnlyEmbedded(request[c].sql_text) => result[c].value = <<>>
        /\ (request[c].op = "execute_sql" /\ result[c] = Returns(MSG_READONLY))
              => ~OnlyEmbedded(request[c].query)
        /\ (request[c].op = "execute_sql" /\ pc[c] = "connect")
              => /\ trace[c] = <<"detect_mutating_keywords", "check_sql_injection_risk">>
                 /\ OnlyEmbedded(request[c].query)

C11_Witness ==
    \E c \in Threads :
        /\ Ended(c) /\ settings.read_only_connection
        /\ request[c].query \in EmbeddedTexts
        /\ \E i \in 0..Len(request[c].query) : Occurs(request[c].query, i, KW_DELETE)
        /\ \E i \in 0..Len(request[c].query) : Occurs(request[c].query, i, KW_INSERT)
        /\ OnlyEmbedded(request[c].query)
        /\ trace[c][1] = "detect_mutating_keywords"
        /\ Has(c, "execute")
        /\ result[c].kind = "return"

----------------------------------------------------------------------------
(* check_sql_injection_risk called on its own.                             *)

Checked(c) == request[c].op = "check_sql_injection_risk" /\ pc[c] = "done"

\* the entries of SUSPICIOUS_PATTERNS that match the text somewhere
Categories(sql) == { n \in 1..NumSuspiciousPatterns : re_search(n, sql) }

\* C12: check_sql_injection_risk returns at most one issue however many
\* patterns match: a text that matches any pattern yields exactly one issue,
\* a text that matches several ('OR 1=1' and DROP) yields one as well, and
\* the empty string yields the empty list.
C12_AtMostOneIssue ==
    \A c \in Threads :
        Checked(c) =>
            /\ Len(result[c].value) <= 1
            /\ Categories(request[c].sql) # {} => Len(result[c].value) = 1
            /\ request[c].sql = <<>> => result[c].value = <<>>

C12_Witness ==
    \E c \in Threads :
        /\ Checked(c)
        /\ request[c].sql = <<"S","E","L","E","C","T"," ","*"," ","F","R","O","M"," ","u","s","e","r","s"," ","W","H","E","R","E"," ","i","d"," ","="," ","1"," ","O","R"," ","1","=","1",";"," ","D","R","O","P"," ","T","A","B","L","E"," ","u","s","e","r","s",";">>
        /\ { 1, 3 } \subseteq Categories(request[c].sql)
        /\ Len(result[c].value) = 1

\* The nine categories said without reference to how the patterns are
\* matched: t[a+1..b] are the characters between the offsets a and b.
AllIn(t, a, b, S) == \A j \in (a + 1)..b : t[j] \in S

NoQuote(t, a, b) == \A j \in (a + 1)..b : t[j] # "'"

IsAt(t, i, c) == i < Len(t) /\ t[i + 1] = c

\* the word w (in lower case) stands at offset i in any case
LitAt(t, i, w) == i + Len(w) <= Len(t) /\ lower(SubSeq(t, i + 1, i + Len(w))) = w

\* a word character on exactly one side of offset i
Edge(t, i) ==
    (i >= 1 /\ i <= Len(t) /\ t[i] \in WordChars)
        # (i + 1 <= Len(t) /\ t[i + 1] \in WordChars)

HasWord(t, w) == \E i \in 0..Len(t) : Edge(t, i) /\ LitAt(t, i, w) /\ Edge(t, i + Len(w))

\* OR, whitespace, a number, '=' with optional whitespace around it, a number
HasNumericTautology(t) ==
    \E i \in 0..Len(t) :
        /\ Edge(t, i) /\ LitAt(t, i, RE_or) /\ Edge(t, i + 2)
        /\ \E b \in (i + 3)..Len(t) :
              /\ AllIn(t, i + 2, b, SpaceChars)
              /\ \E c \in (b + 1)..Len(t) :
                    /\ AllIn(t, b, c, DigitChars)
                    /\ \E d \in c..Len(t) :
                          /\ AllIn(t, c, d, SpaceChars)
                          /\ IsAt(t, d, "=")
                          /\ \E e \in (d + 1)..Len(t) :
                                /\ AllIn(t, d + 1, e, SpaceChars)
                                /\ e < Len(t) /\ t[e + 1] \in DigitChars

\* OR, a quoted non-empty text, '=', a quoted non-empty text
HasStringTautology(t) ==
    \E i \in 0..Len(t) :
        /\ Edge(t, i) /\ LitAt(t, i, RE_or) /\ Edge(t, i + 2)
        /\ \E a \in (i + 2)..Len(t) :
              /\ AllIn(t, i + 2, a, SpaceChars)
              /\ IsAt(t, a, "'")
              /\ \E b \in (a + 2)..Len(t) :
                    /\ NoQuote(t, a + 1, b)
                    /\ IsAt(t, b, "'")
                    /\ \E c \in (b + 1)..Len(t) :
                          /\ AllIn(t, b + 1, c, SpaceChars)
                          /\ IsAt(t, c, "=")
                          /\ \E d \in (c + 1)..Len(t) :
                                /\ AllIn(t, c + 1, d, SpaceChars)
                                /\ IsAt(t, d, "'")
                                /\ \E e \in (d + 2)..Len(t) :
                                      NoQuote(t, d + 1, e) /\ IsAt(t, e, "'")

\* a function name at the start of a word, optional whitespace, '('
HasCall(t, f) ==
    \E i \in 0..Len(t) :
        /\ Edge(t, i) /\ LitAt(t, i, f)
        /\ \E a \in (i + Len(f))..Len(t) :
              AllIn(t, i + Len(f), a, SpaceChars) /\ IsAt(t, a, "(")

HasIntoOutfile(t) ==
    \E i \in 0..Len(t) :
        /\ Edge(t, i) /\ LitAt(t, i, RE_into)
        /\ \E a \in (i + Len(RE_into) + 1)..Len(t) :
              /\ AllIn(t, i + Len(RE_into), a, SpaceChars)
              /\ LitAt(t, a, RE_outfile)
              /\ Edge(t, a + Len(RE_outfile))

InUnsafeCategory(t) ==
    \/ HasNumericTautology(t)
    \/ HasStringTautology(t)
    \/ \E w \in { RE_drop, RE_truncate, RE_grant, RE_revoke } : HasWord(t, w)
    \/ \E f \in { RE_sleep, RE_pg_sleep, RE_load_file } : HasCall(t, f)
    \/ HasIntoOutfile(t)

NumberEnd(t, a) ==
    CHOOSE b \in a..Len(t) : AllIn(t, a, b, DigitChars) /\ ~(b < Len(t) /\ t[b + 1] \in DigitChars)

\* OR <n> = <n>: the same number on both sides
HasEqualNumbers(t) ==
    \E i \in 0..Len(t) :
        /\ Edge(t, i) /\ LitAt(t, i, RE_or) /\ Edge(t, i + 2)
        /\ \E b \in (i + 3)..Len(t) :
              /\ AllIn(t, i + 2, b, SpaceChars)
              /\ IsAt(t, b, t[b + 1]) /\ t[b + 1] \in DigitChars
              /\ \E d \in NumberEnd(t, b)..Len(t) :
                    /\ AllIn(t, NumberEnd(t, b), d, SpaceChars)
                    /\ IsAt(t, d, "=")
                    /\ \E e \in (d + 1)..Len(t) :
                          /\ AllIn(t, d + 1, e, SpaceChars)
                          /\ SubSeq(t, b + 1, NumberEnd(t, b))
                                = SubSeq(t, e + 1, NumberEnd(t, e))

\* OR '<s>' = '<s>': the same quoted text on both sides
HasEqualStrings(t) ==
    \E i \in 0..Len(t) :
        /\ Edge(t, i) /\ LitAt(t, i, RE_or) /\ Edge(t, i + 2)
        /\ \E a \in (i + 2)..Len(t) :
              /\ AllIn(t, i + 2, a, SpaceChars)
              /\ IsAt(t, a, "'")
              /\ \E b \in (a + 2)..Len(t) :
                    /\ NoQuote(t, a + 1, b)
                    /\ IsAt(t, b, "'")
                    /\ \E c \in (b + 1)..Len(t) :
                          /\ AllIn(t, b + 1, c, SpaceChars)
                          /\ IsAt(t, c, "=")
                          /\ \E d \in (c + 1)..Len(t) :
                                /\ AllIn(t, c + 1, d, SpaceChars)
                                /\ IsAt(t, d, "'")
                                /\ \E e \in (d + 2)..Len(t) :
                                      /\ NoQuote(t, d + 1, e) /\ IsAt(t, e, "'")
                                      /\ SubSeq(t, a + 2, b) = SubSeq(t, d + 2, e)

\* C25 as stated: the two tautology categories fire only on tautologies: a
\* text with no 'OR n = n' and no "OR 's' = 's'" in it that is in none of
\* the other categories yields no issue, 'OR n = m' with different numbers
\* and "OR 's' = 't'" with different strings included.
C25_OnlyTautologiesFire ==
    \A c \in Threads :
        (Checked(c) /\ ~HasEqualNumbers(request[c].sql) /\ ~HasEqualStrings(request[c].sql)
            /\ Categories(request[c].sql) \subseteq {1, 2})
        => result[c].value = <<>>

\* OR 1=22 has been checked: no number is compared with itself, no other
\* category matches, and the call returns an issue
C25_Witness ==
    \E c \in Threads :
        /\ Checked(c) /\ request[c].sql = <<"O","R"," ","1","=","2","2">>
        /\ ~HasEqualNumbers(request[c].sql) /\ ~HasEqualStrings(request[c].sql)
        /\ Categories(request[c].sql) = {1}
        /\ Len(result[c].value) = 1

\* the sets of keywords a process whose pattern was built in the given
\* order returns for the text
DetectedSets(sql_text, order) ==
    { Range(l) : l \in detect_mutating_keywords(sql_text, order) }

\* C14 as stated: a call's result depends on its text alone, in whichever
\* process or run it is made: detect_mutating_keywords returns, as a set,
\* what it returns under every other order in which a process can have
\* built MUTATING_PATTERN, and check_sql_injection_risk returns what it
\* returns for the text in any other call.
C14_SameResultInEveryRun ==
    \A c \in Threads :
        /\ Detected(c) =>
              \A order \in AlternationOrders :
                  DetectedSets(request[c].sql_text, order) = { Range(result[c].value) }
        /\ Checked(c) => result[c].value = check_sql_injection_risk(request[c].sql)

\* two runs disagree on 'CREATE EXTENSION t'
C14_Witness ==
    \E c \in Threads :
        /\ Detected(c)
        /\ request[c].sql_text = KW_CREATE_EXTENSION \o <<" ","t">>
        /\ Range(result[c].value) = { KW_CREATE_EXTENSION }
        /\ \E order \in AlternationOrders :
              DetectedSets(request[c].sql_text, order) = { { KW_CREATE } }

\* offset i of t lies in a comment: after a '--' of the same line, or after
\* a '/*' with no '*/' in between
InComment(t, i) ==
    \/ \E a \in 0..(i - 2) :
          /\ t[a + 1] = "-" /\ t[a + 2] = "-"
          /\ \A j \in (a + 3)..i : t[j] # "\n"
    \/ \E a \in 0..(i - 2) :
          /\ t[a + 1] = "/" /\ t[a + 2] = "*"
          /\ \A b \in (a + 2)..(i - 2) : ~(t[b + 1] = "*" /\ t[b + 2] = "/")

\* the entries of the vocabulary stand in t in comments only
KeywordOnlyInComment(t) ==
    /\ \E k \in MUTATING_KEYWORDS : Standalone(k, t)
    /\ \A k \in MUTATING_KEYWORDS : \A i \in 0..Len(t) :
          KeywordMatchesAt(t, i, k) => InComment(t, i)

----------------------------------------------------------------------------
(* v1/server.py: the resource get_table_data on one thread and execute_sql *)
(* on another, called with the texts the resource builds.                  *)

NAME_orders == <<"o","r","d","e","r","s">>
NAME_public == <<"p","u","b","l","i","c">>
NAME_sales == <<"s","a","l","e","s">>
NAME_drop == <<"x",";"," ","D","R","O","P"," ","T","A","B","L","E"," ","x">>
NAME_delete == <<"x",";"," ","D","E","L","E","T","E"," ","F","R","O","M"," ","x">>

\* the arguments get_table_data is called with: table_name, schema_name, max_rows
ResourceArguments ==
    { <<NAME_orders, NAME_public, 100>>,
      <<NAME_orders, NAME_public, 5>>,
      <<NAME_orders, NAME_sales, 100>>,
      <<NAME_drop, NAME_public, 100>>,
      <<NAME_delete, NAME_public, 100>>,
      <<NAME_orders, NAME_drop, 5>> }

\* the statements execute_sql is called with beside them
ResourceQueries ==
    { get_table_data_query(a[1], a[2], a[3]) : a \in ResourceArguments } \cup { Q_DELETE }

InitResource ==
    /\ database = EmptyDatabase
    /\ settings \in [read_only_connection : BOOLEAN]
    /\ alternation = NonPrefixKeywords \o <<KW_CREATE, KW_CREATE_EXTENSION, KW_CREATE_FUNCTION>>
    /\ pc = [c \in Threads |-> "idle"]
    /\ request = [c \in Threads |-> NoRequest]
    /\ frame = [c \in Threads |-> EmptyFrame]
    /\ trace = [c \in Threads |-> <<>>]
    /\ result = [c \in Threads |-> NoPending]
    /\ connections = <<>>
    /\ cursors = <<>>

NextResource ==
    \/ \E a \in ResourceArguments : Call_get_table_data("t1", a[1], a[2], a[3])
    \/ get_table_data("t1")
    \/ \E query \in ResourceQueries : Call_execute_sql("t2", query)
    \/ \E c \in Threads :
          \/ execute_sql_gate(c)
          \/ get_cnxn(c)
          \/ cnxn_cursor(c)
          \/ execute_sql_execute(c)
          \/ execute_sql_fetch(c)
          \/ execute_sql_commit(c)
          \/ cursor_close(c)
          \/ cnxn_exit(c)
          \/ Return(c)

SpecResource == InitResource /\ [][NextResource]_vars

----------------------------------------------------------------------------
(* mlservice/db.py: building a Settings object.  The values the settings   *)
(* sources give (environment, .env file) are a dictionary; with a          *)
(* secret_id the validator evaluate reads the connection details from the  *)
(* secret.  Dictionaries are functions from keys to values.                *)

KeyError(key) == [type |-> "KeyError", args |-> <<key>>]

\* the connection fields (lines 80-84), and the port when no source gives one
FieldNames == {"pg_host", "pg_password", "pg_user", "pg_dbname"}

DefaultPort == 5432

\* the dictionary d with key k set to v
SetItem(d, k, v) == [x \in DOMAIN d \cup {k} |-> IF x = k THEN v ELSE d[x]]

\* a validator that lets the other sources stand in for what the secret lacks
evaluate_defaulting(values, cnxn_details) ==
    LET take(d, field, key) ==
            IF key \in DOMAIN cnxn_details THEN SetItem(d, field, cnxn_details[key]) ELSE d
    IN  Returns(take(take(take(take(values, "pg_host", "host"), "pg_password", "password"),
                          "pg_user", IF "username" \in DOMAIN cnxn_details
                                     THEN "username" ELSE "user"),
                     "pg_dbname", "dbname"))

\* lines 93-104: the try block of evaluate over the resolved secret.  The
\* first key that is missing raises KeyError; the port alone has a default
evaluate(values, cnxn_details) ==
    LET user_name_attribute == IF "username" \in DOMAIN cnxn_details THEN "username" ELSE "user"
        port == IF "port" \in DOMAIN cnxn_details THEN cnxn_details["port"] ELSE DefaultPort
    IN  IF "host" \notin DOMAIN cnxn_details THEN Raises(KeyError("host"))
        ELSE IF "password" \notin DOMAIN cnxn_details THEN Raises(KeyError("password"))
        ELSE IF user_name_attribute \notin DOMAIN cnxn_details
            THEN Raises(KeyError(user_name_attribute))
        ELSE IF "dbname" \notin DOMAIN cnxn_details THEN Raises(KeyError("dbname"))
        ELSE Returns(SetItem(SetItem(SetItem(SetItem(SetItem(values,
                        "pg_host", cnxn_details["host"]),
                        "pg_port", port),
                        "pg_password", cnxn_details["password"]),
                        "pg_user", cnxn_details[user_name_attribute]),
                        "pg_dbname", cnxn_details["dbname"]))

\* what the settings sources give: no secret_id, an empty one or a secret
\* reference, with or without the connection fields
SourceValues ==
    { [k \in keys |->
          CASE k = "secret_id" -> secret_id
            [] k = "pg_host" -> "env-host"
            [] k = "pg_password" -> "env-password"
            [] k = "pg_user" -> "env-user"
            [] k = "pg_dbname" -> "env-db"] :
        keys \in { {}, {"secret_id"}, FieldNames, FieldNames \cup {"secret_id"},
                   {"secret_id", "pg_host"} },
        secret_id \in { "", "test-secret" } }

\* the secrets parameters.get_secret resolves to: any of the keys may be missing
Secrets ==
    { [k \in keys |->
          CASE k = "host" -> "test-host"
            [] k = "port" -> 5433
            [] k = "password" -> "test-password"
            [] k = "username" -> "test-username"
            [] k = "user" -> "test-user"
            [] k = "dbname" -> "test-db"] :
        keys \in SUBSET {"host", "port", "password", "username", "user", "dbname"} }

ERR_secret == <<"s","e","c","r","e","t"," ","n","o","t"," ","f","o","u","n","d">>

\* Settings() is called: the sources have given their values, and the
\* secret store holds the secret
Call_Settings(c, values, secret) ==
    /\ pc[c] = "idle"
    /\ request' = [request EXCEPT ![c] =
          [op |-> "Settings", values |-> values, secret |-> secret, data |-> values]]
    /\ frame' = [frame EXCEPT ![c] = EmptyFrame]
    /\ trace' = [trace EXCEPT ![c] = <<>>]
    /\ result' = [result EXCEPT ![c] = NoPending]
    /\ pc' = [pc EXCEPT ![c] = "evaluate"]
    /\ UNCHANGED <<database, settings, alternation, connections, cursors>>

\* lines 86-106: the validator evaluate, run before the fields are validated.
\* data is the dictionary it returns
Settings_evaluate(c) ==
    /\ pc[c] = "evaluate"
    /\ LET values == request[c].values IN
       IF "secret_id" \in DOMAIN values /\ values["secret_id"] # ""
       THEN \/ LET outcome == evaluate(values, request[c].secret) IN
               /\ Log(c, "get_secret")
               /\ IF outcome.kind = "raise"
                  THEN /\ result' = [result EXCEPT ![c] = outcome]
                       /\ pc' = [pc EXCEPT ![c] = "done"]
                       /\ request' = request
                  ELSE /\ result' = result
                       /\ pc' = [pc EXCEPT ![c] = "validate"]
                       /\ request' = [request EXCEPT ![c].data = outcome.value]
            \/ /\ Log(c, "get_secret:raise")
               /\ result' = [result EXCEPT ![c] = Raises(ERR_secret)]
               /\ pc' = [pc EXCEPT ![c] = "done"]
               /\ request' = request
       ELSE /\ trace' = trace
            /\ result' = result
            /\ pc' = [pc EXCEPT ![c] = "validate"]
            /\ request' = request
    /\ UNCHANGED <<database, settings, alternation, frame, connections, cursors>>

\* lines 72-84: the fields are validated: the four connection fields are
\* required, the others have defaults
Settings_validate(c) ==
    /\ pc[c] = "validate"
    /\ LET data == request[c].data
           missing == FieldNames \ DOMAIN data
       IN  result' = [result EXCEPT ![c] =
              IF missing # {}
              THEN Raises([type |-> "ValidationError", args |-> <<missing>>])
              ELSE Returns([read_only_connection |-> TRUE,
                            debug |-> FALSE,
                            secret_id |-> IF "secret_id" \in DOMAIN data
                                          THEN data["secret_id"] ELSE "",
                            pg_host |-> data["pg_host"],
                            pg_port |-> IF "pg_port" \in DOMAIN data
                                        THEN data["pg_port"] ELSE DefaultPort,
                            pg_password |-> data["pg_password"],
                            pg_user |-> data["pg_user"],
                            pg_dbname |-> data["pg_dbname"]])]
    /\ Log(c, "validate")
    /\ pc' = [pc EXCEPT ![c] = "done"]
    /\ UNCHANGED <<database, settings, alternation, request, frame, connections, cursors>>

NextSettings ==
    \/ \E values \in SourceValues, secret \in Secrets : Call_Settings("t1", values, secret)
    \/ Settings_evaluate("t1")
    \/ Settings_validate("t1")
    \/ Return("t1")

\* the Settings objects are built one at a time; the catalog, the
\* module-level settings and the pattern take no part
SpecSettings == InitResource /\ [][NextSettings]_vars

----------------------------------------------------------------------------
(* get_tables and get_table_schemas against the catalog.                   *)

\* the call of c is a get_tables call that built its result from fetched rows
TablesListed(c) ==
    request[c].op = "get_tables" /\ pc[c] = "done" /\ Has(c, "fetchall")

\* the tables, views and materialized views of the schema that carry a
\* comment of their own
Documented(db, schema_name) ==
    { r \in db.pg_class :
        r.nspname = schema_name /\ r.relkind \in {"r", "v", "m"} /\ r.description # NULL }

TypeOf(relkind) ==
    CASE relkind = "r" -> "BASE TABLE"
      [] relkind = "v" -> "VIEW"
      [] relkind = "m" -> "MATERIALIZED VIEW"

\* C16 as stated: get_tables(s) returns exactly one descriptor for every
\* table, view and materialized view of schema s whose own description is
\* not null, carrying that description, and no other descriptor, whatever
\* relations of the same name other schemas hold.
C16_OneDescriptorPerDocumentedObject ==
    \A c \in Threads :
        TablesListed(c) =>
            LET documented == Documented(database, request[c].schema_name)
                listed == result[c].value
            IN  /\ Len(listed) = Cardinality(documented)
                /\ \A r \in documented :
                     \E i \in DOMAIN listed :
                        listed[i] = [name |-> PyStr(r.relname),
                                     type |-> PyStr(TypeOf(r.relkind)),
                                     description |-> PyStr(r.description)]

\* public.orders has no comment and is listed with the comment of archive.orders
C16_Witness ==
    \E c \in Threads :
        /\ TablesListed(c)
        /\ request[c].schema_name = "public"
        /\ Relation("public", "orders", "r", NULL) \in database.pg_class
        /\ Relation("archive", "orders", "r", "Archived orders") \in database.pg_class
        /\ result[c].value =
              << [name |-> PyStr("orders"), type |-> PyStr("BASE TABLE"),
                  description |-> PyStr("Archived orders")] >>

Introspection(c) == request[c].op \in {"get_tables", "get_table_schemas"} /\ pc[c] = "done"

\* the catalog query or the fetch of the call raised
QueryFailed(c) == Has(c, "execute:raise") \/ Has(c, "fetchall:raise")

\* C17: when the catalog query or the fetch of get_tables or
\* get_table_schemas raises, the call returns the empty list and raises
\* nothing, after closing its cursor and then its connection; a call whose
\* query selects no row returns the same empty list.
C17_IntrospectionFailureIsEmpty ==
    \A c \in Threads :
        Introspection(c) =>
            /\ QueryFailed(c) =>
                  /\ result[c] = Returns(<<>>)
                  /\ Released(c)
                  /\ Has(c, "cursor.close")
            /\ (Has(c, "fetchall") /\ cursors[frame[c].cursor].rows = <<>>) =>
                  result[c] = Returns(<<>>)

\* get_table_schemas(['orders']) on a database that has the table: the
\* fetch raises and the answer is the empty list
C17_Witness ==
    \E c \in Threads :
        /\ Introspection(c)
        /\ request[c].op = "get_table_schemas"
        /\ request[c].tables = <<"orders">>
        /\ database \in SchemaDatabases
        /\ Has(c, "fetchall:raise")
        /\ cursors[frame[c].cursor].rows # <<>>
        /\ result[c] = Returns(<<>>)
        /\ Released(c)

\* the call of c is a get_table_schemas call that built its result from
\* fetched rows
SchemasListed(c) ==
    request[c].op = "get_table_schemas" /\ pc[c] = "done" /\ Has(c, "fetchall")

\* the rows the call of c fetched
Fetched(c) == cursors[frame[c].cursor].rows

\* the requested names that are relations of the schema with a column
WithColumns(db, schema_name, tables) ==
    { t \in Range(tables) :
        /\ \E r \in db.pg_class :
              r.nspname = schema_name /\ r.relname = t /\ r.relkind \in {"r", "v", "m"}
        /\ \E a \in db.pg_attribute : a.nspname = schema_name /\ a.relname = t }

\* C18: get_table_schemas(tables, s) returns exactly one TableSchema for
\* each distinct table name that has a column row among the fetched rows
\* (the requested relations of s that have a column), and none for any
\* other name; a requested table without column rows is left out, and a
\* list of such tables alone gives the empty list.
C18_OneSchemaPerTableWithColumns ==
    \A c \in Threads :
        SchemasListed(c) =>
            LET names == { Col(Fetched(c)[i], 7) : i \in DOMAIN Fetched(c) }
                listed == result[c].value
            IN  /\ result[c].kind = "return"
                /\ names = { PyStr(t) : t \in WithColumns(database, request[c].schema_name,
                                                           request[c].tables) }
                /\ Len(listed) = Cardinality(names)
                /\ \A n \in names : \E i \in DOMAIN listed : listed[i].name = n
                /\ \A i \in DOMAIN listed :
                     listed[i].name \in names /\ listed[i].schema = request[c].schema_name
                /\ names = {} => listed = <<>>

\* 'missing' is left out, 'orders' is returned once with its three columns
C18_Witness ==
    \E c \in Threads :
        /\ SchemasListed(c)
        /\ request[c].tables = <<"missing", "orders">>
        /\ database \in SchemaDatabases
        /\ Len(Fetched(c)) >= 3
        /\ Len(result[c].value) = 1
        /\ result[c].value[1].name = PyStr("orders")
        /\ Len(result[c].value[1].columns) >= 3

\* the foreign keys of one column the database holds for the column
ForeignKeysOf(db, schema_name, table, column) ==
    { k \in db.constraints :
        /\ k.constraint_type = "FOREIGN KEY"
        /\ k.table_schema = schema_name /\ k.table_name = table
        /\ \E i \in DOMAIN k.columns : k.columns[i] = column }

Target(schema_name, table, column) ==
    [t |-> "dict", referenced_schema |-> PyStr(schema_name),
     referenced_table |-> PyStr(table), referenced_column |-> PyStr(column)]

\* C19 as stated: in every TableSchema a column name appears with at most
\* one foreign-key target, a column that no foreign key constrains has
\* foreign_key null, and a column with a foreign key to customers.id of
\* schema public has foreign_key {public, customers, id}.
C19_OneTargetPerColumn ==
    \A c \in Threads :
        SchemasListed(c) =>
            \A i \in DOMAIN result[c].value :
                LET table == result[c].value[i]
                    columns == table.columns
                IN  /\ \A j \in DOMAIN columns : \A k \in DOMAIN columns :
                          (columns[j].name = columns[k].name
                              /\ columns[j].foreign_key # None
                              /\ columns[k].foreign_key # None)
                          => columns[j].foreign_key = columns[k].foreign_key
                    /\ \A j \in DOMAIN columns :
                          LET keys == ForeignKeysOf(database, request[c].schema_name,
                                                    table.name.v, columns[j].name.v)
                          IN  /\ keys = {} => columns[j].foreign_key = None
                              /\ (\A k \in keys : k.constraint_name = "orders_customer_fk")
                                    /\ keys # {}
                                 => columns[j].foreign_key = Target("public", "customers", "id")

\* orders(customer_id, region) references customers(id, region) and nothing
\* else: customer_id is returned with the target customers.region as well
C19_Witness ==
    \E c \in Threads :
        /\ SchemasListed(c)
        /\ request[c].tables = <<"orders">>
        /\ Cardinality(database.constraints) = 1
        /\ \E k \in database.constraints : k.constraint_name = "orders_region_fk"
        /\ \E j \in DOMAIN result[c].value[1].columns :
              /\ result[c].value[1].columns[j].name = PyStr("customer_id")
              /\ result[c].value[1].columns[j].foreign_key = Target("public", "customers", "region")
        /\ \E j \in DOMAIN result[c].value[1].columns :
              /\ result[c].value[1].columns[j].name = PyStr("customer_id")
              /\ result[c].value[1].columns[j].foreign_key = Target("public", "customers", "id")

\* the ordinal position (attnum) of a column of a table
Ordinal(db, schema_name, table, column) ==
    (CHOOSE a \in db.pg_attribute :
        a.nspname = schema_name /\ a.relname = table /\ a.attname = column).attnum

\* the rows of seq that belong to the table, in their order
RECURSIVE RowsOf(_, _)
RowsOf(rows, table_name) ==
    IF rows = <<>> THEN <<>>
    ELSE IF Col(Head(rows), 7) = table_name
         THEN <<Head(rows)>> \o RowsOf(Tail(rows), table_name)
         ELSE RowsOf(Tail(rows), table_name)

\* C20: in every TableSchema the columns are the table's fetched rows in
\* fetch order, and so in ascending ordinal position: a column never comes
\* before a column of lower ordinal position.
C20_ColumnsInOrdinalOrder ==
    \A c \in Threads :
        SchemasListed(c) =>
            \A i \in DOMAIN result[c].value :
                LET table == result[c].value[i]
                    rows == RowsOf(Fetched(c), table.name)
                    at(j) == Ordinal(database, request[c].schema_name, table.name.v,
                                     table.columns[j].name.v)
                IN  /\ table.columns = [j \in DOMAIN rows |-> ColumnInfo(rows[j])]
                    /\ \A j \in DOMAIN table.columns : \A k \in DOMAIN table.columns :
                          j < k => at(j) <= at(k)

\* orders and customers requested: orders comes back as id, customer_id, region
C20_Witness ==
    \E c \in Threads :
        /\ SchemasListed(c)
        /\ request[c].tables = <<"orders", "customers">>
        /\ database.constraints = {}
        /\ Len(result[c].value) = 2
        /\ result[c].value[2].name = PyStr("orders")
        /\ [j \in 1..3 |-> result[c].value[2].columns[j].name]
              = <<PyStr("id"), PyStr("customer_id"), PyStr("region")>>

\* the table names of the rows in the order of their first appearance
RECURSIVE FirstSeen(_, _)
FirstSeen(rows, seen) ==
    IF rows = <<>> THEN seen
    ELSE FirstSeen(Tail(rows),
                   IF \E i \in DOMAIN seen : seen[i] = Col(Head(rows), 7) THEN seen
                   ELSE Append(seen, Col(Head(rows), 7)))

\* the lists with the elements of tables in another order
Reorderings(tables) ==
    { [i \in DOMAIN tables |-> tables[p[i]]] :
        p \in { q \in [DOMAIN tables -> DOMAIN tables] :
                  \A i \in DOMAIN tables : \E j \in DOMAIN tables : q[j] = i } }

\* C21: the TableSchemas come in the order in which their table names first
\* appear in the fetched rows, each with the description of the first row
\* of its table, and the result is one the call returns for every other
\* order of the requested list.
C21_FirstSeenOrder ==
    \A c \in Threads :
        SchemasListed(c) =>
            LET listed == result[c].value
                names == FirstSeen(Fetched(c), <<>>)
            IN  /\ [i \in DOMAIN listed |-> listed[i].name] = names
                /\ \A i \in DOMAIN listed :
                     LET first == RowsOf(Fetched(c), names[i])[1]
                     IN  listed[i].description =
                            (IF Truthy(Col(first, 6)) THEN Col(first, 6) ELSE None)
                /\ \A tables \in Reorderings(request[c].tables) :
                     \E rows \in get_table_schemas_query(database, request[c].schema_name,
                                                         tables) :
                        get_table_schemas_output(rows, request[c].schema_name) = listed

\* orders is asked for before customers and comes back after it
C21_Witness ==
    \E c \in Threads :
        /\ SchemasListed(c)
        /\ request[c].tables = <<"orders", "customers">>
        /\ [i \in DOMAIN result[c].value |-> result[c].value[i].name]
              = <<PyStr("customers"), PyStr("orders")>>
        /\ result[c].value[1].description = None
        /\ result[c].value[2].description = PyStr("Customer orders")

\* the live columns of a table of the catalog
LiveColumns(db, schema_name, table) ==
    { a \in db.pg_attribute : a.nspname = schema_name /\ a.relname = table }

\* C27 as stated: in every TableSchema each column appears exactly once, and
\* the number of entries of columns is the number of live columns of the
\* table, also when a column is in a primary key and a foreign key or the
\* table has a foreign key of several columns.
C27_OneEntryPerColumn ==
    \A c \in Threads :
        SchemasListed(c) =>
            \A i \in DOMAIN result[c].value :
                LET table == result[c].value[i]
                    columns == table.columns
                IN  /\ \A j \in DOMAIN columns : \A k \in DOMAIN columns :
                          columns[j].name = columns[k].name => j = k
                    /\ Len(columns) = Cardinality(LiveColumns(database,
                                          request[c].schema_name, table.name.v))

\* orders(id, customer_id, region) with a primary key on id and a foreign
\* key on id: four entries, id twice
C27_Witness ==
    \E c \in Threads :
        /\ SchemasListed(c)
        /\ request[c].tables = <<"orders">> /\ request[c].schema_name = "public"
        /\ { k.constraint_name : k \in database.constraints } = {"orders_pkey", "orders_id_fk"}
        /\ Cardinality(LiveColumns(database, "public", "orders")) = 3
        /\ Len(result[c].value) = 1
        /\ [j \in 1..4 |-> result[c].value[1].columns[j].name]
              = <<PyStr("id"), PyStr("id"), PyStr("customer_id"), PyStr("region")>>

----------------------------------------------------------------------------
(* get_table_data and execute_sql side by side.                            *)

\* the execute_sql call of c was made by get_table_data
FromResource(c) == request[c].op = "execute_sql" /\ "caller" \in DOMAIN request[c]

\* what the database answered to the statement of c, if it was executed
Answer(c) ==
    IF frame[c].cursor \in DOMAIN cursors
    THEN <<cursors[frame[c].cursor].description, cursors[frame[c].cursor].rows,
           PyInt(cursors[frame[c].cursor].rowcount)>>
    ELSE <<>>

\* C22: get_table_data(table_name, schema_name, max_rows) is execute_sql on
\* 'SELECT * FROM {schema_name}.{table_name} LIMIT {max_rows}' with the
\* names put in as they are: the text goes through the same gate (a
\* mutating text in read-only mode and a suspicious text are rejected with
\* the rejection of execute_sql and without database access), and the call
\* returns what an execute_sql call on that text returns when the driver
\* behaves the same for both.
C22_ResourceIsExecuteSql ==
    \A c \in Threads :
        (Ended(c) /\ FromResource(c)) =>
            LET a == request[c].caller
                q == request[c].query
                mutating == detect_of(q, alternation) # { <<>> }
                rejected == settings.read_only_connection /\ mutating
            IN  /\ q = STR_SELECT_FROM \o a.schema_name \o <<".">> \o a.table_name
                         \o STR_LIMIT \o IntToStr(a.max_rows)
                /\ rejected => (result[c] = Returns(MSG_READONLY) /\ NoDatabaseAccess(c))
                /\ (~rejected /\ issues_of(q) # <<>>) =>
                      (result[c] = Returns(SuspiciousAnswer(q)) /\ NoDatabaseAccess(c))
                /\ \A d \in Threads :
                      (Ended(d) /\ ~FromResource(d) /\ request[d].query = q
                          /\ trace[d] = trace[c] /\ Answer(d) = Answer(c))
                      => result[d] = result[c]

\* get_table_data('x; DELETE FROM x', 'public', 100) and execute_sql on the
\* text it builds, both rejected in read-only mode
C22_Witness ==
    /\ Ended("t1") /\ FromResource("t1")
    /\ request["t1"].caller.table_name = NAME_delete
    /\ settings.read_only_connection
    /\ Ended("t2") /\ ~FromResource("t2")
    /\ request["t2"].query = request["t1"].query
    /\ result["t1"] = Returns(MSG_READONLY)
    /\ result["t2"] = result["t1"]

----------------------------------------------------------------------------
(* Settings built from a secret.                                           *)

\* a Settings() call has ended
Built(c) == request[c].op = "Settings" /\ pc[c] = "done"

\* the required fields the secret does not hold
MissingFromSecret(secret) ==
    ({"host", "password", "dbname"} \ DOMAIN secret)
        \cup (IF {"username", "user"} \cap DOMAIN secret = {} THEN {"user"} ELSE {})

\* C23: with a secret reference configured and a resolved secret that lacks
\* host, password, dbname, or both username and user, Settings() raises a
\* KeyError that names a missing field and produces no Settings object,
\* also when the other sources hold a value for that field.
C23_MissingSecretFieldIsFatal ==
    \A c \in Threads :
        (Built(c) /\ Has(c, "get_secret") /\ MissingFromSecret(request[c].secret) # {}) =>
            /\ result[c].kind = "raise"
            /\ result[c].exc.type = "KeyError"
            /\ result[c].exc.args[1] \in MissingFromSecret(request[c].secret)
            /\ ~Has(c, "validate")

\* the secret of the test without host, while the environment has PG_HOST
C23_Witness ==
    \E c \in Threads :
        /\ Built(c)
        /\ Has(c, "get_secret")
        /\ DOMAIN request[c].secret = {"username", "password", "dbname"}
        /\ "pg_host" \in DOMAIN request[c].values
        /\ result[c] = Raises(KeyError("host"))

----------------------------------------------------------------------------
(* mcp_integration.py: MCPClient.get_table_data.  The client reads the     *)
(* resource whose URI it builds from the table name; the server matches    *)
(* the URI against the template of get_table_data and calls the function   *)
(* with what the template gives it.                                        *)

STR_postgresql == <<"p","o","s","t","g","r","e","s","q","l",":","/","/">>
STR_data == <<"/","d","a","t","a">>

\* line 171: resource_uri = f"postgresql://{table_name}/data"
resource_uri(table_name, schema_name, max_rows) == STR_postgresql \o table_name \o STR_data

\* server.py line 30: the template "postgresql://{table_name}/data".  A URI
\* matches when a non-empty text without '/' stands in the place of the
\* parameter; the text is the value of table_name
MatchesTemplate(uri) ==
    /\ Len(uri) > Len(STR_postgresql) + Len(STR_data)
    /\ startswith(uri, STR_postgresql)
    /\ SubSeq(uri, Len(uri) - Len(STR_data) + 1, Len(uri)) = STR_data
    /\ \A i \in (Len(STR_postgresql) + 1)..(Len(uri) - Len(STR_data)) : uri[i] # "/"

TemplateArgument(uri) == SubSeq(uri, Len(STR_postgresql) + 1, Len(uri) - Len(STR_data))

ERR_unknown_resource == <<"U","n","k","n","o","w","n"," ","r","e","s","o","u","r","c","e">>

NAME_customers == <<"c","u","s","t","o","m","e","r","s">>

\* the arguments MCPClient.get_table_data is called with; the test reads a
\* table of public with max_rows 5
ClientArguments ==
    { <<NAME_orders, schema_name, max_rows>> :
        schema_name \in { NAME_public, NAME_sales }, max_rows \in { 100, 5 } }
      \cup { <<NAME_customers, NAME_public, 100>> }

\* lines 154-172: the client builds the URI and sends resources/read with
\* it.  client keeps the arguments of the call
MCPClient_get_table_data(c, table_name, schema_name, max_rows) ==
    /\ pc[c] = "idle"
    /\ request' = [request EXCEPT ![c] =
          [op |-> "read_resource",
           uri |-> resource_uri(table_name, schema_name, max_rows),
           client |-> [table_name |-> table_name, schema_name |-> schema_name,
                       max_rows |-> max_rows]]]
    /\ frame' = [frame EXCEPT ![c] = EmptyFrame]
    /\ trace' = [trace EXCEPT ![c] = <<>>]
    /\ result' = [result EXCEPT ![c] = NoPending]
    /\ pc' = [pc EXCEPT ![c] = "read_resource"]
    /\ UNCHANGED <<database, settings, alternation, connections, cursors>>

\* server.py lines 30-38: the server takes table_name from the URI and
\* calls get_table_data; schema_name and max_rows, which the template does
\* not name, have their defaults "public" and 100
read_resource(c) ==
    /\ pc[c] = "read_resource"
    /\ IF MatchesTemplate(request[c].uri)
       THEN /\ request' = [request EXCEPT ![c] =
                  [op |-> "get_table_data",
                   table_name |-> TemplateArgument(request[c].uri),
                   schema_name |-> NAME_public,
                   max_rows |-> 100,
                   client |-> request[c].client]]
            /\ pc' = [pc EXCEPT ![c] = "resource"]
            /\ result' = result
       ELSE /\ request' = request
            /\ pc' = [pc EXCEPT ![c] = "done"]
            /\ result' = [result EXCEPT ![c] = Raises(ERR_unknown_resource)]
    /\ UNCHANGED <<database, settings, alternation, frame, trace, connections, cursors>>

NextClient ==
    \E c \in Threads :
        \/ \E a \in ClientArguments : MCPClient_get_table_data(c, a[1], a[2], a[3])
        \/ read_resource(c)
        \/ get_table_data(c)
        \/ execute_sql_gate(c)
        \/ get_cnxn(c)
        \/ cnxn_cursor(c)
        \/ execute_sql_execute(c)
        \/ execute_sql_fetch(c)
        \/ cursor_close(c)
        \/ cnxn_exit(c)
        \/ Return(c)

\* every statement the resource builds begins with SELECT: the write branch
\* of execute_sql is never entered
SpecClient == InitResource /\ [][NextClient]_vars

----------------------------------------------------------------------------
(* The client's get_table_data and the query the server runs.              *)

\* the statement of c was built for a call of MCPClient.get_table_data
FromClient(c) == FromResource(c) /\ "client" \in DOMAIN request[c].caller

\* C28 as stated: the schema_name and max_rows the caller gives to
\* MCPClient.get_table_data determine the query the server runs, which is
\* 'SELECT * FROM {schema_name}.{table_name} LIMIT {max_rows}' of the
\* caller's values, and two calls that differ in schema_name or max_rows
\* alone send different requests.
C28_ClientArgumentsReachServer ==
    /\ \A c \in Threads :
          FromClient(c) =>
              LET a == request[c].caller.client
              IN  request[c].query
                     = get_table_data_query(a.table_name, a.schema_name, a.max_rows)
    /\ \A c \in Threads : \A d \in Threads :
          (request[c].op = "read_resource" /\ request[d].op = "read_resource"
              /\ request[c].client # request[d].client)
          => request[c].uri # request[d].uri

\* get_table_data('orders', 'sales', 5) has ended: the server executed
\* SELECT * FROM public.orders LIMIT 100
C28_Witness ==
    \E c \in Threads :
        /\ Ended(c) /\ FromClient(c)
        /\ request[c].caller.client
              = [table_name |-> NAME_orders, schema_name |-> NAME_sales, max_rows |-> 5]
        /\ Has(c, "execute")
        /\ cursors[frame[c].cursor].executed
              = << STR_SELECT_FROM \o NAME_public \o <<".">> \o NAME_orders
                      \o STR_LIMIT \o <<"1","0","0">> >>

====
